---------------------------- MODULE Spec2Model ----------------------------
(***************************************************************************)
(* Fixed Ratio Trading client library (FRT-js-libs).                       *)
(*                                                                         *)
(* The library is stateless: the state of this model is one invocation of  *)
(* a library operation, i.e. the operation, its arguments, the requests it *)
(* has sent to the transport (the web3.js Connection), the responses it    *)
(* got, and the value it returned or the error it raised.  A synchronous   *)
(* operation completes in one step; an async operation suspends at every   *)
(* await until the transport answers.                                      *)
(***************************************************************************)
EXTENDS Integers, Sequences, FiniteSets, TLC

VARIABLES
    op,         \* the operation invoked last
    via,        \* called as a function of the library or on the client
    args,       \* its arguments
    pc,         \* "idle", "done", or the await the invocation is suspended at
    requests,   \* transport requests of this invocation, in order
    responses,  \* transport responses to them, in order
    result,     \* what the invocation returned or raised
    waiting     \* the invocations suspended at an await while another runs

vars == <<op, via, args, pc, requests, responses, result, waiting>>

(***************************************************************************)
(* Outcomes of a call: a returned value or a raised error.                 *)
(***************************************************************************)
Return(v) == [ok |-> TRUE, value |-> v]
Throw(e) == [ok |-> FALSE, error |-> e]

Min(a, b) == IF a < b THEN a ELSE b
SetMax(S) == CHOOSE k \in S : \A j \in S : j <= k
Range(s) == {s[i] : i \in 1..Len(s)}

(***************************************************************************)
(* bn.js integers.  A BN is a sign and a magnitude; the magnitude is kept  *)
(* as its little-endian base-256 digits without leading zero digits, which *)
(* is also the byte order toArrayLike(Buffer, 'le', n) writes.             *)
(***************************************************************************)
RECURSIVE Strip(_)
Strip(m) ==
    IF m = <<>> THEN <<>>
    ELSE IF m[Len(m)] = 0 THEN Strip(SubSeq(m, 1, Len(m) - 1))
    ELSE m

RECURSIVE NatBytes(_)
NatBytes(n) == IF n = 0 THEN <<>> ELSE <<n % 256>> \o NatBytes(n \div 256)

Digit(m, i) == IF i <= Len(m) THEN m[i] ELSE 0

CmpMag(a, b) ==
    IF Len(a) # Len(b) THEN (IF Len(a) < Len(b) THEN -1 ELSE 1)
    ELSE LET diff == {i \in 1..Len(a) : a[i] # b[i]}
         IN  IF diff = {} THEN 0
             ELSE IF a[SetMax(diff)] < b[SetMax(diff)] THEN -1 ELSE 1

RECURSIVE AddMagC(_, _, _, _)
AddMagC(a, b, i, c) ==
    IF i > Len(a) /\ i > Len(b) THEN (IF c = 0 THEN <<>> ELSE <<c>>)
    ELSE LET s == Digit(a, i) + Digit(b, i) + c
         IN  <<s % 256>> \o AddMagC(a, b, i + 1, s \div 256)

AddMag(a, b) == AddMagC(a, b, 1, 0)

RECURSIVE SubMagC(_, _, _, _)
SubMagC(a, b, i, c) ==
    IF i > Len(a) THEN <<>>
    ELSE LET s == a[i] - Digit(b, i) - c
         IN  IF s < 0 THEN <<s + 256>> \o SubMagC(a, b, i + 1, 1)
             ELSE <<s>> \o SubMagC(a, b, i + 1, 0)

\* a - b for a >= b
SubMag(a, b) == Strip(SubMagC(a, b, 1, 0))

RECURSIVE MulSmallC(_, _, _, _)
MulSmallC(a, k, i, c) ==
    IF i > Len(a) THEN (IF c = 0 THEN <<>> ELSE <<c>>)
    ELSE LET s == a[i] * k + c
         IN  <<s % 256>> \o MulSmallC(a, k, i + 1, s \div 256)

\* a * k for a digit k
MulSmall(a, k) == Strip(MulSmallC(a, k, 1, 0))

RECURSIVE MulMagFrom(_, _, _)
MulMagFrom(a, b, j) ==
    IF j > Len(b) THEN <<>>
    ELSE AddMag(MulSmall(a, b[j]), <<0>> \o MulMagFrom(a, b, j + 1))

MulMag(a, b) == Strip(MulMagFrom(a, b, 1))

RECURSIVE QSearch(_, _, _, _)
QSearch(r, b, lo, hi) ==
    IF lo = hi THEN lo
    ELSE LET mid == (lo + hi + 1) \div 2
         IN  IF CmpMag(MulSmall(b, mid), r) <= 0 THEN QSearch(r, b, mid, hi)
             ELSE QSearch(r, b, lo, mid - 1)

\* one step of the long division by b: from <<quotient, remainder>> of the
\* higher digits to those with one more digit
DivStep(higher, digit, b) ==
    IF higher[2] = <<>> /\ digit = 0 THEN <<<<0>> \o higher[1], <<>>>>
    ELSE LET r == Strip(<<digit>> \o higher[2])
             d == QSearch(r, b, 0, 255)
         IN  <<<<d>> \o higher[1], SubMag(r, MulSmall(b, d))>>

\* long division of the digits i.. of a by b: <<quotient, remainder>>
RECURSIVE DivRemFrom(_, _, _)
DivRemFrom(a, b, i) ==
    IF i > Len(a) THEN <<<<>>, <<>>>>
    ELSE DivStep(DivRemFrom(a, b, i + 1), a[i], b)

\* floor(a / b) for b # 0
DivMag(a, b) == Strip(DivRemFrom(a, b, 1)[1])

MkBN(neg, mag) == [neg |-> neg /\ mag # <<>>, mag |-> mag]

\* new BN(n) for a JS integer n
BN(n) == MkBN(n < 0, NatBytes(IF n < 0 THEN -n ELSE n))

BNisZero(a) == a.mag = <<>>

BNcmp(a, b) ==
    IF a.neg # b.neg THEN (IF a.neg THEN -1 ELSE 1)
    ELSE IF a.neg THEN CmpMag(b.mag, a.mag) ELSE CmpMag(a.mag, b.mag)

BNeq(a, b) == BNcmp(a, b) = 0
BNlt(a, b) == BNcmp(a, b) < 0
BNlte(a, b) == BNcmp(a, b) <= 0
BNgt(a, b) == BNcmp(a, b) > 0
BNgte(a, b) == BNcmp(a, b) >= 0

BNmul(a, b) == MkBN(a.neg # b.neg, MulMag(a.mag, b.mag))

\* BN.div: truncates toward zero; bn.js asserts that the divisor is not zero
BNdiv(a, b) ==
    IF BNisZero(b) THEN Throw("Assertion failed")
    ELSE Return(MkBN(a.neg # b.neg, DivMag(a.mag, b.mag)))

BNabs(a) == MkBN(FALSE, a.mag)

BNneg(a) == MkBN(~a.neg, a.mag)

BNadd(a, b) ==
    IF a.neg = b.neg THEN MkBN(a.neg, AddMag(a.mag, b.mag))
    ELSE IF CmpMag(a.mag, b.mag) >= 0 THEN MkBN(a.neg, SubMag(a.mag, b.mag))
    ELSE MkBN(b.neg, SubMag(b.mag, a.mag))

BNsub(a, b) == BNadd(a, BNneg(b))

RECURSIVE BNpow(_, _)
BNpow(a, n) == IF n = 0 THEN BN(1) ELSE BNmul(a, BNpow(a, n - 1))

\* the magnitude in n bytes, the most significant byte first
ToArrayLikeBE(a, n) ==
    IF Len(a.mag) > n THEN Throw("byte array longer than desired length")
    ELSE Return([i \in 1..n |-> Digit(a.mag, n + 1 - i)])

\* BN.toArrayLike(Buffer, 'le', n): the magnitude in n bytes; bn.js asserts
\* that it fits
ToArrayLikeLE(a, n) ==
    IF Len(a.mag) > n THEN Throw("byte array longer than desired length")
    ELSE Return([i \in 1..n |-> Digit(a.mag, i)])

(***************************************************************************)
(* Text.  A JS string is its sequence of UTF-16 code units; a Buffer is    *)
(* its sequence of bytes.                                                  *)
(***************************************************************************)
IsCont(b) == b >= 128 /\ b <= 191

\* the range the byte after lead byte b must lie in to continue the sequence
SecondLo(b) == IF b = 224 THEN 160 ELSE IF b = 240 THEN 144 ELSE 128
SecondHi(b) == IF b = 237 THEN 159 ELSE IF b = 244 THEN 143 ELSE 191

Has(s, i, lo, hi) == i <= Len(s) /\ s[i] >= lo /\ s[i] <= hi

\* Buffer.prototype.toString('utf8'): every maximal ill-formed part decodes
\* to U+FFFD, a supplementary code point to a surrogate pair
RECURSIVE Utf8Decode(_, _)
Utf8Decode(s, i) ==
    IF i > Len(s) THEN <<>>
    ELSE LET b == s[i] IN
      IF b < 128 THEN <<b>> \o Utf8Decode(s, i + 1)
      ELSE IF b >= 194 /\ b <= 223 THEN
        IF Has(s, i + 1, 128, 191)
        THEN <<(b - 192) * 64 + (s[i + 1] - 128)>> \o Utf8Decode(s, i + 2)
        ELSE <<65533>> \o Utf8Decode(s, i + 1)
      ELSE IF b >= 224 /\ b <= 239 THEN
        IF ~Has(s, i + 1, SecondLo(b), SecondHi(b))
        THEN <<65533>> \o Utf8Decode(s, i + 1)
        ELSE IF ~Has(s, i + 2, 128, 191)
        THEN <<65533>> \o Utf8Decode(s, i + 2)
        ELSE <<(b - 224) * 4096 + (s[i + 1] - 128) * 64 + (s[i + 2] - 128)>>
                 \o Utf8Decode(s, i + 3)
      ELSE IF b >= 240 /\ b <= 244 THEN
        IF ~Has(s, i + 1, SecondLo(b), SecondHi(b))
        THEN <<65533>> \o Utf8Decode(s, i + 1)
        ELSE IF ~Has(s, i + 2, 128, 191)
        THEN <<65533>> \o Utf8Decode(s, i + 2)
        ELSE IF ~Has(s, i + 3, 128, 191)
        THEN <<65533>> \o Utf8Decode(s, i + 3)
        ELSE LET cp == (b - 240) * 262144 + (s[i + 1] - 128) * 4096
                         + (s[i + 2] - 128) * 64 + (s[i + 3] - 128) - 65536
             IN  <<55296 + (cp \div 1024), 56320 + (cp % 1024)>>
                     \o Utf8Decode(s, i + 4)
      ELSE <<65533>> \o Utf8Decode(s, i + 1)

BufferToString(buf) == Utf8Decode(buf, 1)

IsHighSurrogate(u) == u >= 55296 /\ u <= 56319
IsLowSurrogate(u) == u >= 56320 /\ u <= 57343

\* Buffer.from(str, 'utf8'), the bytes written for the code unit at i: a
\* surrogate pair encodes to four bytes, written at its first half, a lone
\* surrogate to the three bytes of U+FFFD
Utf8EncodeUnit(s, i) ==
    LET u == s[i] IN
      IF u < 128 THEN <<u>>
      ELSE IF u < 2048 THEN <<192 + (u \div 64), 128 + (u % 64)>>
      ELSE IF IsHighSurrogate(u) /\ i < Len(s) /\ IsLowSurrogate(s[i + 1])
      THEN LET cp == 65536 + (u - 55296) * 1024 + (s[i + 1] - 56320)
           IN  <<240 + (cp \div 262144), 128 + ((cp \div 4096) % 64),
                 128 + ((cp \div 64) % 64), 128 + (cp % 64)>>
      ELSE IF IsLowSurrogate(u) /\ i > 1 /\ IsHighSurrogate(s[i - 1])
      THEN <<>>
      ELSE IF IsHighSurrogate(u) \/ IsLowSurrogate(u)
      THEN <<239, 191, 189>>
      ELSE <<224 + (u \div 4096), 128 + ((u \div 64) % 64), 128 + (u % 64)>>

\* the bytes for the code units lo..hi
RECURSIVE Utf8Encode(_, _, _)
Utf8Encode(s, lo, hi) ==
    IF lo > hi THEN <<>>
    ELSE IF lo = hi THEN Utf8EncodeUnit(s, lo)
    ELSE Utf8Encode(s, lo, (lo + hi) \div 2)
             \o Utf8Encode(s, (lo + hi) \div 2 + 1, hi)

BufferFromString(str) == Utf8Encode(str, 1, Len(str))

\* s < t on two JS strings: by code units, a proper prefix first
StringLess(s, t) ==
    LET diff == {i \in 1..Min(Len(s), Len(t)) : s[i] # t[i]}
    IN  IF diff = {} THEN Len(s) < Len(t)
        ELSE LET k == CHOOSE k \in diff : \A j \in diff : k <= j
             IN  s[k] < t[k]

\* String.prototype.slice(0, n) for n >= 0
StringSlice(s, n) == SubSeq(s, 1, Min(n, Len(s)))

\* a < b on two byte sequences, byte by byte (Buffer.compare(a, b) < 0)
BytesLess(a, b) == StringLess(a, b)

(***************************************************************************)
(* Addresses.  A PublicKey is its byte sequence.                           *)
(***************************************************************************)
\* the addresses drawn: KeyLen bytes, alike but for the last two
KeyLen == 2
KeyBytes == {65, 128, 195}
Keys == {[i \in 1..(KeyLen - 2) |-> 65] \o <<a, b>> : a, b \in KeyBytes}

SEED_SYSTEM_STATE == <<115, 121, 115, 116, 101, 109, 95, 115, 116, 97, 116, 101>>
SEED_MAIN_TREASURY == <<109, 97, 105, 110, 95, 116, 114, 101, 97, 115, 117, 114, 121>>
SEED_POOL_STATE_V2 == <<112, 111, 111, 108, 95, 115, 116, 97, 116, 101, 95, 118, 50>>
SEED_TOKEN_A_VAULT == <<116, 111, 107, 101, 110, 95, 97, 95, 118, 97, 117, 108, 116>>
SEED_TOKEN_B_VAULT == <<116, 111, 107, 101, 110, 95, 98, 95, 118, 97, 117, 108, 116>>
SEED_LP_TOKEN_A_MINT == <<108, 112, 95, 116, 111, 107, 101, 110, 95, 97, 95, 109, 105, 110, 116>>
SEED_LP_TOKEN_B_MINT == <<108, 112, 95, 116, 111, 107, 101, 110, 95, 98, 95, 109, 105, 110, 116>>

\* the fixed accounts of web3.js and spl-token, told apart by a first
\* element that is no byte
SystemProgramId == <<257, 1>>
TOKEN_PROGRAM_ID == <<257, 2>>
SYSVAR_RENT_PUBKEY == <<257, 3>>

RECURSIVE Concat(_)
Concat(ss) == IF ss = <<>> THEN <<>> ELSE Head(ss) \o Concat(Tail(ss))

RECURSIVE SumSeq(_)
SumSeq(s) == IF s = <<>> THEN 0 ELSE Head(s) + SumSeq(Tail(s))

\* The digest of seeds || bump || PROGRAM_ID || "ProgramDerivedAddress".
\* The hash is taken to be collision free: a digest stands for what was
\* hashed, behind the marker 256.
Digest(seeds, bump) == <<256>> \o Concat(seeds) \o <<bump>>

\* whether a digest is a point of the signing curve: about half of all
\* digests are, and for a few seeds the digest is whatever the bump
IsOnCurve(d) == SumSeq(d) % 2 = 1 \/ (SumSeq(d) - d[Len(d)]) % 31 = 4

\* the bumps tried from 0 up
TryBump_FromZero(seeds, bump) ==
    LET off == {b \in 0..bump : ~IsOnCurve(Digest(seeds, b))}
    IN  IF off = {}
        THEN Throw("Unable to find a viable program address nonce")
        ELSE LET b == CHOOSE b \in off : \A k \in off : b <= k
             IN  Return(<<Digest(seeds, b), b>>)

\* PublicKey.findProgramAddressSync: the bumps are tried from 255 down and
\* the first whose digest is off the curve is taken.  The loop is unrolled
\* in runs of sixteen bumps: TryRun tries the bumps from bump down to low.
RECURSIVE TryRun(_, _, _)
TryRun(seeds, bump, low) ==
    IF bump < low THEN Throw("Unable to find a viable program address nonce")
    ELSE IF ~IsOnCurve(Digest(seeds, bump))
    THEN Return(<<Digest(seeds, bump), bump>>)
    ELSE TryRun(seeds, bump - 1, low)

RECURSIVE TryBump(_, _)
TryBump(seeds, bump) ==
    IF bump < 0 THEN Throw("Unable to find a viable program address nonce")
    ELSE LET run == TryRun(seeds, bump, IF bump < 15 THEN 0 ELSE bump - 15)
         IN  IF run.ok THEN run ELSE TryBump(seeds, bump - 16)

FindProgramAddressSync(seeds) == TryBump(seeds, 255)

normalizeTokenOrder(tokenAMint, tokenBMint) ==
    IF StringLess(BufferToString(tokenAMint), BufferToString(tokenBMint))
    THEN <<tokenAMint, tokenBMint>>
    ELSE <<tokenBMint, tokenAMint>>

deriveSystemStatePDA == FindProgramAddressSync(<<SEED_SYSTEM_STATE>>)

deriveMainTreasuryPDA == FindProgramAddressSync(<<SEED_MAIN_TREASURY>>)

derivePoolStatePDA(tokenAMint, tokenBMint, ratioA, ratioB) ==
    LET mints == normalizeTokenOrder(tokenAMint, tokenBMint)
        a == ToArrayLikeLE(ratioA, 8)
        b == ToArrayLikeLE(ratioB, 8)
    IN  IF ~a.ok THEN a
        ELSE IF ~b.ok THEN b
        ELSE FindProgramAddressSync(
                 <<SEED_POOL_STATE_V2, mints[1], mints[2], a.value, b.value>>)

(***************************************************************************)
(* utils.ts: ratio math.                                                   *)
(***************************************************************************)
calculateRequiredLiquidity(depositAmount, depositTokenRatio, otherTokenRatio) ==
    BNdiv(BNmul(depositAmount, otherTokenRatio), depositTokenRatio)

\* a swap output of which a fee of 0.3% is taken
calculateSwapOutput_FeeTaken(inputAmount, inputRatio, outputRatio) ==
    LET out == BNdiv(BNmul(inputAmount, outputRatio), inputRatio)
    IN  IF out.ok THEN BNdiv(BNmul(out.value, BN(997)), BN(1000)) ELSE out

\* an output that is rounded up
calculateSwapOutput_RoundedUp(inputAmount, inputRatio, outputRatio) ==
    BNdiv(BNsub(BNadd(BNmul(inputAmount, outputRatio), inputRatio), BN(1)), inputRatio)

calculateSwapOutput(inputAmount, inputRatio, outputRatio) ==
    BNdiv(BNmul(inputAmount, outputRatio), inputRatio)

\* a slippage that is rounded down and then taken off the amount
applySlippage_TakenOff(expectedAmount, slippageTolerance) ==
    LET off == BNdiv(BNmul(expectedAmount, BN(slippageTolerance)), BN(100))
    IN  IF off.ok THEN Return(BNsub(expectedAmount, off.value)) ELSE off

\* slippageTolerance is an integer here, on which Math.floor changes nothing
applySlippage(expectedAmount, slippageTolerance) ==
    LET tolerance == (100 - slippageTolerance) * 100
    IN  BNdiv(BNmul(expectedAmount, BN(tolerance)), BN(10000))

\* a 4-byte little-endian length (Buffer.writeUInt32LE)
UInt32LE(n) == [i \in 1..4 |-> (n \div (256 ^ (i - 1))) % 256]

\* a message cut to maxLength bytes of its encoding
encodeMessage_BytesLimited(message, maxLength) ==
    LET messageBuffer == BufferFromString(message)
        cut == SubSeq(messageBuffer, 1, Min(maxLength, Len(messageBuffer)))
    IN  UInt32LE(Len(cut)) \o cut

encodeMessage(message, maxLength) ==
    LET truncatedMessage == StringSlice(message, maxLength)
        messageBuffer == BufferFromString(truncatedMessage)
    IN  UInt32LE(Len(messageBuffer)) \o messageBuffer

(***************************************************************************)
(* constants.ts                                                            *)
(***************************************************************************)
PROGRAM_ID == <<257, 0>>

PoolInstruction ==
    [InitializeProgram |-> 0, PauseSystem |-> 1, UnpauseSystem |-> 2,
     GetVersion |-> 14, InitializePool |-> 3, PausePool |-> 4,
     UnpausePool |-> 5, UpdatePoolFees |-> 6, Deposit |-> 7, Withdraw |-> 8,
     Swap |-> 9, SetSwapOwnerOnly |-> 10, WithdrawTreasuryFees |-> 11,
     GetTreasuryInfo |-> 12, DonateSol |-> 13, ConsolidatePoolFees |-> 15]

MIN_DONATION_AMOUNT == BN(100000000)

\* an entry of a TransactionInstruction's keys
Account(pubkey, isSigner, isWritable) ==
    [pubkey |-> pubkey, isSigner |-> isSigner, isWritable |-> isWritable]

TransactionInstruction(keys, data) ==
    [keys |-> keys, programId |-> PROGRAM_ID, data |-> data]

\* f applied to what r returned, or the error r raised
Then(r, f(_)) == IF r.ok THEN f(r.value) ELSE r

\* the first raised error of rs, in order, or else the value v
Try(rs, v) ==
    IF \E i \in 1..Len(rs) : ~rs[i].ok
    THEN rs[CHOOSE i \in 1..Len(rs) :
                ~rs[i].ok /\ \A j \in 1..(i - 1) : rs[j].ok]
    ELSE Return(v)

(***************************************************************************)
(* instructions/swap.ts                                                    *)
(***************************************************************************)
\* An optional parameter is <<>> when it is left out and <<v>> when given.
\* a tolerance brought into [0, 50]
SlippageClamped(given) ==
    IF given = <<>> \/ given[1] = 0 THEN 1
    ELSE IF given[1] < 0 THEN 0
    ELSE IF given[1] > 50 THEN 50
    ELSE given[1]

\* params.slippageTolerance || 1
SlippageOrDefault(given) ==
    IF given = <<>> \/ given[1] = 0 THEN 1 ELSE given[1]

createSwapInstruction(params) ==
    LET systemStatePDA == deriveSystemStatePDA
        mainTreasuryPDA == deriveMainTreasuryPDA
        slippageTolerance == SlippageOrDefault(params.slippageTolerance)
        minAmountOut == applySlippage(params.expectedAmountOut, slippageTolerance)
        amountInLE == ToArrayLikeLE(params.amountIn, 8)
        minAmountOutLE == Then(minAmountOut, LAMBDA v : ToArrayLikeLE(v, 8))
    IN  Try(<<systemStatePDA, mainTreasuryPDA, minAmountOut, amountInLE,
              minAmountOutLE>>,
            TransactionInstruction(
                <<Account(params.userAuthority, TRUE, TRUE),
                  Account(systemStatePDA.value[1], FALSE, FALSE),
                  Account(params.poolStatePDA, FALSE, TRUE),
                  Account(params.userInputAccount, FALSE, TRUE),
                  Account(params.userOutputAccount, FALSE, TRUE),
                  Account(TOKEN_PROGRAM_ID, FALSE, FALSE),
                  Account(SystemProgramId, FALSE, FALSE),
                  Account(mainTreasuryPDA.value[1], FALSE, TRUE),
                  Account(params.inputTokenMint, FALSE, FALSE)>>,
                <<PoolInstruction.Swap>> \o params.inputTokenMint
                    \o amountInLE.value \o minAmountOutLE.value))

\* PublicKey.equals
KeyEquals(a, b) == a = b

getMinAmountOut(expectedAmountOut, slippageTolerance) ==
    applySlippage(expectedAmountOut, slippageTolerance)

getSwapFee == BN(27150)

calculateExpectedSwapOutput(amountIn, inputTokenMint, poolRatioA, poolRatioB, tokenAMint) ==
    IF KeyEquals(inputTokenMint, tokenAMint)
    THEN calculateSwapOutput(amountIn, poolRatioA, poolRatioB)
    ELSE calculateSwapOutput(amountIn, poolRatioB, poolRatioA)

\* A JS number as a fraction num / den with den >= 0: the two infinities
\* have den = 0, and NaN is flagged.  The rounding of a quotient to a double
\* is left out.
NaN == [nan |-> TRUE, num |-> BN(0), den |-> BN(0)]

Number(num, den) ==
    IF BNisZero(num) /\ BNisZero(den) THEN NaN
    ELSE [nan |-> FALSE, num |-> MkBN(num.neg # den.neg, num.mag),
          den |-> BNabs(den)]

\* BN.toNumber
NumberOf(a) == Number(a, BN(1))

NumberDiv(x, y) ==
    IF x.nan \/ y.nan THEN NaN
    ELSE Number(BNmul(x.num, y.den), BNmul(x.den, y.num))

NumberSub(x, y) ==
    IF x.nan \/ y.nan THEN NaN
    ELSE Number(BNsub(BNmul(x.num, y.den), BNmul(y.num, x.den)),
                BNmul(x.den, y.den))

NumberMul(x, y) ==
    IF x.nan \/ y.nan THEN NaN
    ELSE Number(BNmul(x.num, y.num), BNmul(x.den, y.den))

NumberAbs(x) == IF x.nan THEN NaN ELSE [x EXCEPT !.num = BNabs(x.num)]

\* BN.toNumber: bn.js asserts that the value fits in 53 bits
ToNumberOk(a) ==
    IF Len(a.mag) > 7 \/ (Len(a.mag) = 7 /\ a.mag[7] >= 32)
    THEN Throw("Number can only safely store up to 53 bits")
    ELSE Return(a)

SwapFee == BN(27150)

calculateSwapWithPriceImpact(amountIn, inputTokenMint, poolBalanceA, poolBalanceB, tokenAMint) ==
    LET isInputTokenA == KeyEquals(inputTokenMint, tokenAMint)
        balIn == IF isInputTokenA THEN poolBalanceA ELSE poolBalanceB
        balOut == IF isInputTokenA THEN poolBalanceB ELSE poolBalanceA
        amountOut == BNdiv(BNmul(amountIn, balOut), balIn)
        idealPrice == NumberDiv(NumberOf(balOut), NumberOf(balIn))
        actualPrice == NumberDiv(NumberOf(amountOut.value), NumberOf(amountIn))
        priceImpact ==
            NumberMul(NumberAbs(NumberDiv(NumberSub(actualPrice, idealPrice),
                                          idealPrice)),
                      NumberOf(BN(100)))
    IN  Try(<<amountOut, ToNumberOk(balOut), ToNumberOk(balIn),
              Then(amountOut, ToNumberOk), ToNumberOk(amountIn)>>,
            [amountIn |-> amountIn,
             amountOut |-> amountOut.value,
             priceImpact |-> priceImpact,
             fees |-> SwapFee])

\* a validator's answer
Validation(errors) == [isValid |-> Len(errors) = 0, errors |-> errors]

\* errors.push(msg) under a condition
PushIf(errors, cond, msg) == IF cond THEN Append(errors, msg) ELSE errors

validateSwapParams(params) ==
    LET e1 == PushIf(<<>>, BNlte(params.amountIn, BN(0)),
                     "Input amount must be positive")
        e2 == PushIf(e1, BNlte(params.expectedAmountOut, BN(0)),
                     "Expected output amount must be positive")
        e3 == PushIf(e2, /\ params.slippageTolerance # <<>>
                         /\ \/ params.slippageTolerance[1] < 0
                            \/ params.slippageTolerance[1] > 50,
                     "Slippage tolerance must be between 0 and 50 percent")
        maxSwap == BNpow(BN(10), 15)
        e4 == PushIf(e3, BNgte(params.amountIn, maxSwap),
                     "Swap amount too large")
    IN  Validation(e4)

(***************************************************************************)
(* utils.ts: display amounts.  A display amount is a JS number, an IEEE    *)
(* 754 double: here a non-negative double is m * 2^e with m below 2^53,    *)
(* kept with m of 53 binary digits (zero is m = 0, e = 0), and every       *)
(* operation rounds its exact result to the nearest such value, ties to    *)
(* the even m.  Subnormal values and overflow to Infinity are outside the  *)
(* amounts and decimals used.                                              *)
(***************************************************************************)
MantissaBits == 53

\* 2^k
TwoTo(k) == MkBN(FALSE, [i \in 1..(k \div 8) |-> 0] \o <<2 ^ (k % 8)>>)

\* the number of binary digits of a byte
ByteBits(b) == CHOOSE n \in 0..8 : b < 2 ^ n /\ (n = 0 \/ b >= 2 ^ (n - 1))

\* the number of binary digits of a
BitLength(a) ==
    IF BNisZero(a) THEN 0
    ELSE 8 * (Len(a.mag) - 1) + ByteBits(a.mag[Len(a.mag)])

IsOdd(a) == ~BNisZero(a) /\ a.mag[1] % 2 = 1

\* floor(n / d) for d > 0, one more when the remainder is over half of d,
\* or is half of d and the floor is odd
RoundedDiv(n, d) ==
    LET q == BNdiv(n, d).value
        twice == BNmul(BN(2), BNsub(n, BNmul(q, d)))
    IN  IF BNgt(twice, d) \/ (BNeq(twice, d) /\ IsOdd(q))
        THEN BNadd(q, BN(1)) ELSE q

\* the double nearest to n * 2^e / d, for n >= 0 and d > 0
RECURSIVE Double(_, _, _)
Double(n, d, e) ==
    IF BNisZero(n) THEN [m |-> BN(0), e |-> 0]
    ELSE LET excess == BitLength(BNdiv(n, d).value) - MantissaBits
         IN  IF excess < 0
             THEN Double(BNmul(n, TwoTo(-excess)), d, e + excess)
             ELSE LET m == RoundedDiv(n, BNmul(d, TwoTo(excess)))
                  IN  IF BitLength(m) > MantissaBits
                      THEN [m |-> TwoTo(MantissaBits - 1), e |-> e + excess + 1]
                      ELSE [m |-> m, e |-> e + excess]

\* Math.floor of a double
MathFloor(x) ==
    IF x.e >= 0 THEN BNmul(x.m, TwoTo(x.e))
    ELSE BNdiv(x.m, TwoTo(-x.e)).value

\* new BN(number): bn.js asserts that the number is below 2^53
BNofNumber(n) ==
    IF BitLength(n) > MantissaBits THEN Throw("Assertion failed")
    ELSE Return(n)

toBasisPoints(amount, decimals) ==
    LET multiplier == BNpow(BN(10), decimals)
    IN  BNofNumber(MathFloor(Double(BNmul(amount.m, multiplier), BN(1),
                                    amount.e)))

fromBasisPoints(basisPoints, decimals) ==
    LET divisor == BNpow(BN(10), decimals)
        number == ToNumberOk(basisPoints)
    IN  IF ~number.ok THEN number
        ELSE Return(Double(number.value, divisor, 0))

(***************************************************************************)
(* instructions/liquidity.ts                                               *)
(***************************************************************************)
createDepositInstruction(params) ==
    LET systemStatePDA == deriveSystemStatePDA
        mainTreasuryPDA == deriveMainTreasuryPDA
        amountLE == ToArrayLikeLE(params.depositAmount, 8)
    IN  Try(<<systemStatePDA, mainTreasuryPDA, amountLE>>,
            TransactionInstruction(
                <<Account(params.userAuthority, TRUE, TRUE),
                  Account(systemStatePDA.value[1], FALSE, FALSE),
                  Account(params.poolStatePDA, FALSE, TRUE),
                  Account(params.userTokenAccount, FALSE, TRUE),
                  Account(TOKEN_PROGRAM_ID, FALSE, FALSE),
                  Account(SystemProgramId, FALSE, FALSE),
                  Account(mainTreasuryPDA.value[1], FALSE, TRUE),
                  Account(params.depositTokenMint, FALSE, FALSE),
                  Account(params.userLpAccount, FALSE, TRUE)>>,
                <<PoolInstruction.Deposit>> \o params.depositTokenMint
                    \o amountLE.value))

createWithdrawInstruction(poolStatePDA, withdrawAmount, withdrawTokenMint, userAuthority, userLpAccount, userTokenAccount) ==
    LET systemStatePDA == deriveSystemStatePDA
        mainTreasuryPDA == deriveMainTreasuryPDA
        amountLE == ToArrayLikeLE(withdrawAmount, 8)
    IN  Try(<<systemStatePDA, mainTreasuryPDA, amountLE>>,
            TransactionInstruction(
                <<Account(userAuthority, TRUE, TRUE),
                  Account(systemStatePDA.value[1], FALSE, FALSE),
                  Account(poolStatePDA, FALSE, TRUE),
                  Account(userLpAccount, FALSE, TRUE),
                  Account(userTokenAccount, FALSE, TRUE),
                  Account(TOKEN_PROGRAM_ID, FALSE, FALSE),
                  Account(SystemProgramId, FALSE, FALSE),
                  Account(mainTreasuryPDA.value[1], FALSE, TRUE),
                  Account(withdrawTokenMint, FALSE, FALSE)>>,
                <<PoolInstruction.Withdraw>> \o withdrawTokenMint
                    \o amountLE.value))

calculateDepositAmounts(depositAmount, depositTokenMint, poolRatioA, poolRatioB, tokenAMint) ==
    IF KeyEquals(depositTokenMint, tokenAMint)
    THEN Then(calculateRequiredLiquidity(depositAmount, poolRatioA, poolRatioB),
              LAMBDA other : Return([tokenAAmount |-> depositAmount,
                                     tokenBAmount |-> other,
                                     isDepositingTokenA |-> TRUE]))
    ELSE Then(calculateRequiredLiquidity(depositAmount, poolRatioB, poolRatioA),
              LAMBDA other : Return([tokenAAmount |-> other,
                                     tokenBAmount |-> depositAmount,
                                     isDepositingTokenA |-> FALSE]))

\* an estimate that takes the pool for empty only when both are zero
estimateLPTokensFromDeposit_BothZero(depositAmount, currentPoolBalance, currentLpSupply) ==
    IF BNeq(currentLpSupply, BN(0)) /\ BNeq(currentPoolBalance, BN(0))
    THEN Return(depositAmount)
    ELSE BNdiv(BNmul(depositAmount, currentLpSupply), currentPoolBalance)

estimateLPTokensFromDeposit(depositAmount, currentPoolBalance, currentLpSupply) ==
    IF BNeq(currentLpSupply, BN(0)) \/ BNeq(currentPoolBalance, BN(0))
    THEN Return(depositAmount)
    ELSE BNdiv(BNmul(depositAmount, currentLpSupply), currentPoolBalance)

\* an estimate that rounds up
estimateTokensFromWithdraw_RoundedUp(lpAmount, currentPoolBalance, currentLpSupply) ==
    IF BNeq(currentLpSupply, BN(0))
    THEN Return(BN(0))
    ELSE BNdiv(BNsub(BNadd(BNmul(lpAmount, currentPoolBalance),
                           currentLpSupply), BN(1)),
               currentLpSupply)

estimateTokensFromWithdraw(lpAmount, currentPoolBalance, currentLpSupply) ==
    IF BNeq(currentLpSupply, BN(0))
    THEN Return(BN(0))
    ELSE BNdiv(BNmul(lpAmount, currentPoolBalance), currentLpSupply)

validateDepositParams(params) ==
    LET e1 == PushIf(<<>>, BNlte(params.depositAmount, BN(0)),
                     "Deposit amount must be positive")
        maxDeposit == BNpow(BN(10), 15)
        e2 == PushIf(e1, BNgte(params.depositAmount, maxDeposit),
                     "Deposit amount too large")
    IN  Validation(e2)

validateWithdrawParams(withdrawAmount, userLpBalance) ==
    LET e1 == PushIf(<<>>, BNlte(withdrawAmount, BN(0)),
                     "Withdraw amount must be positive")
        e2 == PushIf(e1, BNgt(withdrawAmount, userLpBalance),
                     "Insufficient LP token balance")
    IN  Validation(e2)

(***************************************************************************)
(* instructions/treasury.ts                                                *)
(***************************************************************************)
MaxMessageLength == 200
MaxPoolsPerConsolidation == 20

\* an optional string parameter with its default ""
OrEmpty(given) == IF given = <<>> THEN <<>> ELSE given[1]

\* a donation that lists the system state before the treasury
createDonateSolInstruction_StateFirst(params) ==
    LET systemStatePDA == deriveSystemStatePDA
        mainTreasuryPDA == deriveMainTreasuryPDA
        messageBuffer == encodeMessage(OrEmpty(params.message), MaxMessageLength)
        amountLE == ToArrayLikeLE(params.amount, 8)
    IN  Try(<<systemStatePDA, mainTreasuryPDA, amountLE>>,
            TransactionInstruction(
                <<Account(params.donor, TRUE, TRUE),
                  Account(systemStatePDA.value[1], FALSE, FALSE),
                  Account(mainTreasuryPDA.value[1], FALSE, TRUE),
                  Account(SystemProgramId, FALSE, FALSE)>>,
                <<PoolInstruction.DonateSol>> \o amountLE.value
                    \o messageBuffer))

createDonateSolInstruction(params) ==
    LET systemStatePDA == deriveSystemStatePDA
        mainTreasuryPDA == deriveMainTreasuryPDA
        messageBuffer == encodeMessage(OrEmpty(params.message), MaxMessageLength)
        amountLE == ToArrayLikeLE(params.amount, 8)
    IN  Try(<<systemStatePDA, mainTreasuryPDA, amountLE>>,
            TransactionInstruction(
                <<Account(params.donor, TRUE, TRUE),
                  Account(mainTreasuryPDA.value[1], FALSE, TRUE),
                  Account(systemStatePDA.value[1], FALSE, FALSE),
                  Account(SystemProgramId, FALSE, FALSE)>>,
                <<PoolInstruction.DonateSol>> \o amountLE.value
                    \o messageBuffer))

\* an encoder that takes every pool of the list
createConsolidatePoolFeesInstruction_NoLimit(poolStatePDAs) ==
    LET systemStatePDA == deriveSystemStatePDA
        mainTreasuryPDA == deriveMainTreasuryPDA
    IN  Try(<<systemStatePDA, mainTreasuryPDA>>,
            TransactionInstruction(
                <<Account(systemStatePDA.value[1], FALSE, FALSE),
                  Account(mainTreasuryPDA.value[1], FALSE, TRUE),
                  Account(SystemProgramId, FALSE, FALSE)>>
                  \o [i \in 1..Len(poolStatePDAs) |->
                         Account(poolStatePDAs[i], FALSE, TRUE)],
                <<PoolInstruction.ConsolidatePoolFees>>
                    \o UInt32LE(Len(poolStatePDAs))))

createConsolidatePoolFeesInstruction(poolStatePDAs) ==
    LET systemStatePDA == deriveSystemStatePDA
        mainTreasuryPDA == deriveMainTreasuryPDA
        limitedPools == SubSeq(poolStatePDAs, 1,
                               Min(MaxPoolsPerConsolidation, Len(poolStatePDAs)))
    IN  Try(<<systemStatePDA, mainTreasuryPDA>>,
            TransactionInstruction(
                <<Account(systemStatePDA.value[1], FALSE, FALSE),
                  Account(mainTreasuryPDA.value[1], FALSE, TRUE),
                  Account(SystemProgramId, FALSE, FALSE)>>
                  \o [i \in 1..Len(limitedPools) |->
                         Account(limitedPools[i], FALSE, TRUE)],
                <<PoolInstruction.ConsolidatePoolFees>>
                    \o UInt32LE(Len(limitedPools))))

\* a validator that takes both bounds of the amount for outside
validateDonationParams_Exclusive(params) ==
    LET e1 == PushIf(<<>>, BNlte(params.amount, MIN_DONATION_AMOUNT),
                     "Minimum donation is 0.1 SOL")
        maxDonation == BNmul(BN(1000), BN(1000000000))
        e2 == PushIf(e1, BNgte(params.amount, maxDonation),
                     "Donation amount too large (max 1000 SOL)")
        e3 == PushIf(e2, /\ params.message # <<>>
                         /\ params.message[1] # <<>>
                         /\ Len(params.message[1]) > MaxMessageLength,
                     "Message too long (max 200 characters)")
    IN  Validation(e3)

validateDonationParams(params) ==
    LET e1 == PushIf(<<>>, BNlt(params.amount, MIN_DONATION_AMOUNT),
                     "Minimum donation is 0.1 SOL")
        maxDonation == BNmul(BN(1000), BN(1000000000))
        e2 == PushIf(e1, BNgt(params.amount, maxDonation),
                     "Donation amount too large (max 1000 SOL)")
        e3 == PushIf(e2, /\ params.message # <<>>
                         /\ params.message[1] # <<>>
                         /\ Len(params.message[1]) > MaxMessageLength,
                     "Message too long (max 200 characters)")
    IN  Validation(e3)

\* PublicKey.toBase58: a "1" (digit 0) for every leading zero byte, then the
\* base-58 digits of the bytes read as a big-endian number; a digit stands
\* for its character of the alphabet
Reverse(s) == [i \in 1..Len(s) |-> s[Len(s) + 1 - i]]

RECURSIVE LeadingZeros(_)
LeadingZeros(bytes) ==
    IF bytes # <<>> /\ Head(bytes) = 0 THEN 1 + LeadingZeros(Tail(bytes)) ELSE 0

RECURSIVE Base58Digits(_)
Base58Digits(mag) ==
    IF mag = <<>> THEN <<>>
    ELSE LET q == DivMag(mag, <<58>>)
             r == SubMag(mag, MulSmall(q, 58))
         IN  Append(Base58Digits(q), Digit(r, 1))

ToBase58(bytes) ==
    [i \in 1..LeadingZeros(bytes) |-> 0] \o Base58Digits(Strip(Reverse(bytes)))

\* a validator that finds the twentieth pool one too many
validateConsolidationParams_Below20(poolStatePDAs) ==
    LET e1 == PushIf(<<>>, Len(poolStatePDAs) = 0,
                     "At least one pool must be specified")
        e2 == PushIf(e1, Len(poolStatePDAs) >= MaxPoolsPerConsolidation,
                     "Maximum 20 pools per consolidation transaction")
        uniquePools == {ToBase58(poolStatePDAs[i]) : i \in 1..Len(poolStatePDAs)}
        e3 == PushIf(e2, Cardinality(uniquePools) # Len(poolStatePDAs),
                     "Duplicate pools found in consolidation list")
    IN  Validation(e3)

validateConsolidationParams(poolStatePDAs) ==
    LET e1 == PushIf(<<>>, Len(poolStatePDAs) = 0,
                     "At least one pool must be specified")
        e2 == PushIf(e1, Len(poolStatePDAs) > MaxPoolsPerConsolidation,
                     "Maximum 20 pools per consolidation transaction")
        uniquePools == {ToBase58(poolStatePDAs[i]) : i \in 1..Len(poolStatePDAs)}
        e3 == PushIf(e2, Cardinality(uniquePools) # Len(poolStatePDAs),
                     "Duplicate pools found in consolidation list")
    IN  Validation(e3)

(***************************************************************************)
(* instructions/pool.ts                                                    *)
(***************************************************************************)
deriveTokenVaultPDAs(poolStatePDA) ==
    LET tokenAVault == FindProgramAddressSync(<<SEED_TOKEN_A_VAULT, poolStatePDA>>)
        tokenBVault == FindProgramAddressSync(<<SEED_TOKEN_B_VAULT, poolStatePDA>>)
    IN  Try(<<tokenAVault, tokenBVault>>,
            [tokenAVault |-> tokenAVault.value, tokenBVault |-> tokenBVault.value])

deriveLPTokenMintPDAs(poolStatePDA) ==
    LET lpTokenAMint == FindProgramAddressSync(<<SEED_LP_TOKEN_A_MINT, poolStatePDA>>)
        lpTokenBMint == FindProgramAddressSync(<<SEED_LP_TOKEN_B_MINT, poolStatePDA>>)
    IN  Try(<<lpTokenAMint, lpTokenBMint>>,
            [lpTokenAMint |-> lpTokenAMint.value,
             lpTokenBMint |-> lpTokenBMint.value])

createInitializePoolInstruction(params) ==
    LET mints == normalizeTokenOrder(params.tokenAMint, params.tokenBMint)
        systemStatePDA == deriveSystemStatePDA
        mainTreasuryPDA == deriveMainTreasuryPDA
        poolStatePDA == derivePoolStatePDA(mints[1], mints[2],
                                           params.ratioA, params.ratioB)
        vaults == Then(poolStatePDA, LAMBDA v : deriveTokenVaultPDAs(v[1]))
        lpMints == Then(poolStatePDA, LAMBDA v : deriveLPTokenMintPDAs(v[1]))
        ratioALE == ToArrayLikeLE(params.ratioA, 8)
        ratioBLE == ToArrayLikeLE(params.ratioB, 8)
    IN  Try(<<systemStatePDA, mainTreasuryPDA, poolStatePDA, vaults, lpMints,
              ratioALE, ratioBLE>>,
            TransactionInstruction(
                <<Account(params.userAuthority, TRUE, TRUE),
                  Account(SystemProgramId, FALSE, FALSE),
                  Account(systemStatePDA.value[1], FALSE, FALSE),
                  Account(poolStatePDA.value[1], FALSE, TRUE),
                  Account(TOKEN_PROGRAM_ID, FALSE, FALSE),
                  Account(mainTreasuryPDA.value[1], FALSE, TRUE),
                  Account(SYSVAR_RENT_PUBKEY, FALSE, FALSE),
                  Account(mints[1], FALSE, FALSE),
                  Account(mints[2], FALSE, FALSE),
                  Account(vaults.value.tokenAVault[1], FALSE, TRUE),
                  Account(vaults.value.tokenBVault[1], FALSE, TRUE),
                  Account(lpMints.value.lpTokenAMint[1], FALSE, TRUE),
                  Account(lpMints.value.lpTokenBMint[1], FALSE, TRUE)>>,
                <<PoolInstruction.InitializePool>> \o ratioALE.value
                    \o ratioBLE.value))

getPoolPDAs(tokenAMint, tokenBMint, ratioA, ratioB) ==
    LET mints == normalizeTokenOrder(tokenAMint, tokenBMint)
        pool == derivePoolStatePDA(mints[1], mints[2], ratioA, ratioB)
        vaults == Then(pool, LAMBDA v : deriveTokenVaultPDAs(v[1]))
        lpMints == Then(pool, LAMBDA v : deriveLPTokenMintPDAs(v[1]))
    IN  Try(<<pool, vaults, lpMints>>,
            [poolStatePDA |-> pool.value[1],
             poolBump |-> pool.value[2],
             tokenAVault |-> vaults.value.tokenAVault[1],
             tokenAVaultBump |-> vaults.value.tokenAVault[2],
             tokenBVault |-> vaults.value.tokenBVault[1],
             tokenBVaultBump |-> vaults.value.tokenBVault[2],
             lpTokenAMint |-> lpMints.value.lpTokenAMint[1],
             lpTokenAMintBump |-> lpMints.value.lpTokenAMint[2],
             lpTokenBMint |-> lpMints.value.lpTokenBMint[1],
             lpTokenBMintBump |-> lpMints.value.lpTokenBMint[2],
             normalizedTokenA |-> mints[1],
             normalizedTokenB |-> mints[2]])

\* a validator that stops at its first violation
validatePoolCreationParams_FirstOnly(params) ==
    IF BNlte(params.ratioA, BN(0))
    THEN Validation(<<"Ratio A must be positive">>)
    ELSE IF BNlte(params.ratioB, BN(0))
    THEN Validation(<<"Ratio B must be positive">>)
    ELSE IF KeyEquals(params.tokenAMint, params.tokenBMint)
    THEN Validation(<<"Token A and Token B must be different">>)
    ELSE IF \/ BNgte(params.ratioA, BNpow(BN(10), 18))
            \/ BNgte(params.ratioB, BNpow(BN(10), 18))
    THEN Validation(<<"Ratios too large (max 10^18)">>)
    ELSE Validation(<<>>)

validatePoolCreationParams(params) ==
    LET e1 == PushIf(<<>>, BNlte(params.ratioA, BN(0)),
                     "Ratio A must be positive")
        e2 == PushIf(e1, BNlte(params.ratioB, BN(0)),
                     "Ratio B must be positive")
        e3 == PushIf(e2, KeyEquals(params.tokenAMint, params.tokenBMint),
                     "Token A and Token B must be different")
        maxRatio == BNpow(BN(10), 18)
        e4 == PushIf(e3, \/ BNgte(params.ratioA, maxRatio)
                         \/ BNgte(params.ratioB, maxRatio),
                     "Ratios too large (max 10^18)")
    IN  Validation(e4)

(***************************************************************************)
(* instructions/public.ts: the instructions of the two read-only queries.  *)
(***************************************************************************)
createGetTreasuryInfoInstruction ==
    LET systemStatePDA == deriveSystemStatePDA
        mainTreasuryPDA == deriveMainTreasuryPDA
    IN  Try(<<systemStatePDA, mainTreasuryPDA>>,
            TransactionInstruction(
                <<Account(systemStatePDA.value[1], FALSE, FALSE),
                  Account(mainTreasuryPDA.value[1], FALSE, FALSE)>>,
                <<PoolInstruction.GetTreasuryInfo>>))

createGetVersionInstruction ==
    Return(TransactionInstruction(<<>>, <<PoolInstruction.GetVersion>>))

(***************************************************************************)
(* instructions/public.ts: the log parsers.  A log line is a JS string,    *)
(* the sequence of its code units; every text below is written out so.     *)
(***************************************************************************)
\* "Total Balance:"
LabelTotalBalance ==
    <<84, 111, 116, 97, 108, 32, 66, 97, 108, 97, 110, 99, 101, 58>>
\* "Total Fees Collected:"
LabelTotalFeesCollected ==
    <<84, 111, 116, 97, 108, 32, 70, 101, 101, 115, 32, 67, 111, 108, 108,
      101, 99, 116, 101, 100, 58>>
\* "Last Withdrawal:"
LabelLastWithdrawal ==
    <<76, 97, 115, 116, 32, 87, 105, 116, 104, 100, 114, 97, 119, 97, 108,
      58>>
\* "Withdrawal Count:"
LabelWithdrawalCount ==
    <<87, 105, 116, 104, 100, 114, 97, 119, 97, 108, 32, 67, 111, 117, 110,
      116, 58>>
\* "Donation Count:"
LabelDonationCount ==
    <<68, 111, 110, 97, 116, 105, 111, 110, 32, 67, 111, 117, 110, 116, 58>>
\* "Total Donations:"
LabelTotalDonations ==
    <<84, 111, 116, 97, 108, 32, 68, 111, 110, 97, 116, 105, 111, 110, 115,
      58>>
\* "Contract Name:"
LabelContractName ==
    <<67, 111, 110, 116, 114, 97, 99, 116, 32, 78, 97, 109, 101, 58>>
\* "Contract Version:"
LabelContractVersion ==
    <<67, 111, 110, 116, 114, 97, 99, 116, 32, 86, 101, 114, 115, 105, 111,
      110, 58>>
\* "Build Date:"
LabelBuildDate == <<66, 117, 105, 108, 100, 32, 68, 97, 116, 101, 58>>
\* "Rust Version:"
LabelRustVersion ==
    <<82, 117, 115, 116, 32, 86, 101, 114, 115, 105, 111, 110, 58>>
\* "Name: "
PartName == <<78, 97, 109, 101, 58, 32>>
\* "Version: "
PartVersion == <<86, 101, 114, 115, 105, 111, 110, 58, 32>>
\* "Build: "
PartBuild == <<66, 117, 105, 108, 100, 58, 32>>
\* "Rust: "
PartRust == <<82, 117, 115, 116, 58, 32>>
\* " | "
PartSeparator == <<32, 124, 32>>
\* "Version information not available in logs"
VersionNotAvailable ==
    <<86, 101, 114, 115, 105, 111, 110, 32, 105, 110, 102, 111, 114, 109, 97,
      116, 105, 111, 110, 32, 110, 111, 116, 32, 97, 118, 97, 105, 108, 97,
      98, 108, 101, 32, 105, 110, 32, 108, 111, 103, 115>>

\* the characters \s matches and trim() removes
IsWhiteSpace(c) ==
    c \in {9, 10, 11, 12, 13, 32, 160, 5760, 8232, 8233, 8239, 8287, 12288,
           65279} \cup (8192..8202)

\* the characters \d matches
IsDigit(c) == c >= 48 /\ c <= 57

StartsAt(s, i, t) ==
    i + Len(t) - 1 <= Len(s) /\ SubSeq(s, i, i + Len(t) - 1) = t

\* String.prototype.includes
Includes(s, t) == \E i \in 1..(Len(s) + 1) : StartsAt(s, i, t)

\* the least position from i on at which t occurs in s, 0 if there is none
IndexFrom(s, t, i) ==
    LET at == {j \in i..(Len(s) + 1) : StartsAt(s, j, t)}
    IN  IF at = {} THEN 0 ELSE CHOOSE j \in at : \A k \in at : j <= k

\* the first position from i on that holds no white space (no digit)
RECURSIVE SkipWhiteSpace(_, _)
SkipWhiteSpace(s, i) ==
    IF i <= Len(s) /\ IsWhiteSpace(s[i]) THEN SkipWhiteSpace(s, i + 1) ELSE i

RECURSIVE SkipDigits(_, _)
SkipDigits(s, i) ==
    IF i <= Len(s) /\ IsDigit(s[i]) THEN SkipDigits(s, i + 1) ELSE i

\* String.prototype.trim
RECURSIVE TrimEnd(_)
TrimEnd(s) ==
    IF s # <<>> /\ IsWhiteSpace(s[Len(s)])
    THEN TrimEnd(SubSeq(s, 1, Len(s) - 1)) ELSE s

Trim(s) == TrimEnd(SubSeq(s, SkipWhiteSpace(s, 1), Len(s)))

\* log.split(label)[1] for a log that includes the label: the text between
\* its first occurrence and the next one, or the end of the line
SplitSecond(log, label) ==
    LET from == IndexFrom(log, label, 1) + Len(label)
        next == IndexFrom(log, label, from)
    IN  SubSeq(log, from, IF next = 0 THEN Len(log) ELSE next - 1)

\* a match that takes the first digits anywhere behind the label
MatchDigitsAnywhereAfter(log, label) ==
    LET from == IndexFrom(log, label, 1) + Len(label)
        at == {i \in from..Len(log) : IsDigit(log[i])}
    IN  IF IndexFrom(log, label, 1) = 0 \/ at = {} THEN <<>>
        ELSE LET i == CHOOSE i \in at : \A k \in at : i <= k
             IN  <<SubSeq(log, i, SkipDigits(log, i) - 1)>>

\* log.match(/<label>\s*(\d+)/): <<>> for null, else <<match[1]>>, the
\* digits of the leftmost place where the label, any white space and at
\* least one digit follow each other
MatchDigitsAfter(log, label) ==
    LET digitsAt(i) == SkipWhiteSpace(log, i + Len(label))
        at == {i \in 1..Len(log) :
                  /\ StartsAt(log, i, label)
                  /\ digitsAt(i) <= Len(log)
                  /\ IsDigit(log[digitsAt(i)])}
    IN  IF at = {} THEN <<>>
        ELSE LET i == CHOOSE i \in at : \A k \in at : i <= k
                 from == digitsAt(i)
             IN  <<SubSeq(log, from, SkipDigits(log, from) - 1)>>

\* new BN(str) for a string of decimal digits
RECURSIVE BNfromDigits(_, _)
BNfromDigits(acc, digits) ==
    IF digits = <<>> THEN acc
    ELSE BNfromDigits(BNadd(BNmul(acc, BN(10)), BN(Head(digits) - 48)),
                      Tail(digits))

BNfromString(str) == BNfromDigits(BN(0), str)

\* parseInt(str) for a string of decimal digits
RECURSIVE ParseIntFrom(_, _)
ParseIntFrom(acc, digits) ==
    IF digits = <<>> THEN acc
    ELSE ParseIntFrom(acc * 10 + (Head(digits) - 48), Tail(digits))

parseInt(str) == ParseIntFrom(0, str)

\* an own property that is unset is <<>>, one that is set to v is <<v>>
Unset == <<>>

NoVersionInfo ==
    [name |-> Unset, version |-> Unset, buildDate |-> Unset,
     rustVersion |-> Unset]

\* one pass of the loop of extractVersionFromLogs
VersionInfoAfter(versionInfo, log) ==
    [name |-> IF Includes(log, LabelContractName)
              THEN <<Trim(SplitSecond(log, LabelContractName))>>
              ELSE versionInfo.name,
     version |-> IF Includes(log, LabelContractVersion)
                 THEN <<Trim(SplitSecond(log, LabelContractVersion))>>
                 ELSE versionInfo.version,
     buildDate |-> IF Includes(log, LabelBuildDate)
                   THEN <<Trim(SplitSecond(log, LabelBuildDate))>>
                   ELSE versionInfo.buildDate,
     rustVersion |-> IF Includes(log, LabelRustVersion)
                     THEN <<Trim(SplitSecond(log, LabelRustVersion))>>
                     ELSE versionInfo.rustVersion]

RECURSIVE VersionInfoOf(_, _)
VersionInfoOf(versionInfo, logs) ==
    IF logs = <<>> THEN versionInfo
    ELSE VersionInfoOf(VersionInfoAfter(versionInfo, Head(logs)), Tail(logs))

\* a property that is set to a non-empty string is truthy
Truthy(property) == property # Unset /\ property[1] # <<>>

RECURSIVE Join(_, _)
Join(parts, separator) ==
    IF parts = <<>> THEN <<>>
    ELSE IF Len(parts) = 1 THEN parts[1]
    ELSE parts[1] \o separator \o Join(Tail(parts), separator)

extractVersionFromLogs(logs) ==
    LET versionInfo == VersionInfoOf(NoVersionInfo, logs)
        p1 == IF Truthy(versionInfo.name)
              THEN <<PartName \o versionInfo.name[1]>> ELSE <<>>
        p2 == IF Truthy(versionInfo.version)
              THEN Append(p1, PartVersion \o versionInfo.version[1]) ELSE p1
        p3 == IF Truthy(versionInfo.buildDate)
              THEN Append(p2, PartBuild \o versionInfo.buildDate[1]) ELSE p2
        p4 == IF Truthy(versionInfo.rustVersion)
              THEN Append(p3, PartRust \o versionInfo.rustVersion[1]) ELSE p3
    IN  IF versionInfo = NoVersionInfo THEN VersionNotAvailable
        ELSE Join(p4, PartSeparator)

NoTreasuryInfo ==
    [totalBalance |-> Unset, totalFeesCollected |-> Unset,
     lastWithdrawalTime |-> Unset, withdrawalCount |-> Unset,
     donationCount |-> Unset, totalDonations |-> Unset]

\* if (log.includes(label)) { match = log.match(...); if (match) set }
\* a field that keeps the number it was given first
BNField_KeepFirst(old, log, label) ==
    IF old = <<>> /\ Includes(log, label) /\ MatchDigitsAfter(log, label) # <<>>
    THEN <<BNfromString(MatchDigitsAfter(log, label)[1])>> ELSE old

BNField(old, log, label) ==
    IF Includes(log, label) /\ MatchDigitsAfter(log, label) # <<>>
    THEN <<BNfromString(MatchDigitsAfter(log, label)[1])>> ELSE old

IntField(old, log, label) ==
    IF Includes(log, label) /\ MatchDigitsAfter(log, label) # <<>>
    THEN <<parseInt(MatchDigitsAfter(log, label)[1])>> ELSE old

\* one pass of the loop of parseTreasuryInfoFromLogs
TreasuryInfoAfter(info, log) ==
    [totalBalance |-> BNField(info.totalBalance, log, LabelTotalBalance),
     totalFeesCollected |->
         BNField(info.totalFeesCollected, log, LabelTotalFeesCollected),
     lastWithdrawalTime |->
         BNField(info.lastWithdrawalTime, log, LabelLastWithdrawal),
     withdrawalCount |->
         IntField(info.withdrawalCount, log, LabelWithdrawalCount),
     donationCount |-> IntField(info.donationCount, log, LabelDonationCount),
     totalDonations |->
         BNField(info.totalDonations, log, LabelTotalDonations)]

RECURSIVE TreasuryInfoOf(_, _)
TreasuryInfoOf(info, logs) ==
    IF logs = <<>> THEN info
    ELSE TreasuryInfoOf(TreasuryInfoAfter(info, Head(logs)), Tail(logs))

\* info.f || new BN(0): a BN object is truthy whatever its value
OrBNZero(property) == IF property = Unset THEN BN(0) ELSE property[1]

\* info.f || 0
OrZero(property) == IF property = Unset THEN 0 ELSE property[1]

parseTreasuryInfoFromLogs(logs) ==
    LET info == TreasuryInfoOf(NoTreasuryInfo, logs)
    IN  [totalBalance |-> OrBNZero(info.totalBalance),
         totalFeesCollected |-> OrBNZero(info.totalFeesCollected),
         lastWithdrawalTime |-> OrBNZero(info.lastWithdrawalTime),
         withdrawalCount |-> OrZero(info.withdrawalCount),
         donationCount |-> OrZero(info.donationCount),
         totalDonations |-> OrBNZero(info.totalDonations)]

(***************************************************************************)
(* The arguments the operations are called with.                           *)
(***************************************************************************)
Pow10(n) == BNpow(BN(10), n)

\* 2^64, the least amount that does not fit a u64 field
TwoTo64 == MkBN(FALSE, <<0, 0, 0, 0, 0, 0, 0, 0, 1>>)

Amounts == {BN(-1), BN(0), BN(1), BN(1000), Pow10(15), TwoTo64}
Ratios == {BN(-1), BN(0), BN(1), BN(3), Pow10(18)}
PoolRatios == {BN(0), BN(1), BN(3), TwoTo64}
Balances == {BN(0), BN(1), BN(3), BN(7)}

\* the amounts and the ratios of a swap
\* amounts in the smallest unit, the last one past what toNumber allows
BasisPoints ==
    {BN(0), BN(1), BN(29), BN(100), BN(1000), BN(1500000), Pow10(15),
     TwoTo(MantissaBits)}

Decimals == {0, 2, 6, 9}

\* the display amounts of those
DisplayAmounts ==
    {fromBasisPoints(x, d).value :
         x \in BasisPoints \ {TwoTo(MantissaBits)}, d \in Decimals}

\* the expected outputs of a swap, the last one above every u64
ExpectedAmounts == Amounts \cup {Pow10(20)}

SwapAmounts == Amounts \cup {BN(100)}
SwapRatios == Ratios \cup {BN(160)}

\* an optional number: <<>> when the caller leaves it out
Tolerances == {<<>>, <<-1>>, <<0>>, <<1>>, <<50>>, <<51>>}

\* the key whose bytes are all b
KeyOf(b) == [i \in 1..KeyLen |-> b]

\* the accounts of a user, in two wirings
AccountLists ==
    {<<KeyOf(65), KeyOf(128), KeyOf(195), KeyOf(65)>>,
     <<KeyOf(195), KeyOf(65), KeyOf(128), KeyOf(128)>>}

\* messages of the lengths around the limit, of one- to three-byte
\* characters and surrogates
MsgExtra == 1
MessageUnits == {65, 233, 8364, 55357, 56832}
MessageLengths ==
    {0, 1, 2} \cup ((MaxMessageLength - 1)..(MaxMessageLength + MsgExtra))
Message(n, c1, c2) == [i \in 1..n |-> IF i % 2 = 1 THEN c1 ELSE c2]
Messages ==
    {Message(n, c1, c2) : n \in MessageLengths, c1 \in MessageUnits,
                          c2 \in {65, 56832}}
OptionalMessages == {<<>>} \cup {<<m>> : m \in Messages}

\* lists of pool addresses, without and with repetitions
MaxPoolList == 22
PoolPeriods == {1, 3, 29}
PoolAddress(i) == [j \in 1..KeyLen |-> IF j = KeyLen THEN i ELSE 0]
PoolList(n, period) == [i \in 1..n |-> PoolAddress((i - 1) % period)]
PoolLists == {PoolList(n, period) : n \in 0..MaxPoolList, period \in PoolPeriods}

\* log lines of a simulation
MaxLogLines == 2
LogLines ==
    {LabelTotalBalance \o <<32, 52, 50>>,
     LabelTotalBalance \o <<55>>,
     LabelTotalBalance \o <<32, 120, 49>>,
     LabelTotalBalance \o <<32, 120, 32, 84, 111, 116, 97, 108, 32, 66, 97, 108, 97, 110, 99, 101, 58, 9, 53>>,
     <<80, 114, 111, 103, 114, 97, 109, 32, 108, 111, 103, 58, 32>> \o LabelTotalFeesCollected \o <<32, 53>>,
     LabelLastWithdrawal \o <<32, 57>>,
     LabelWithdrawalCount \o <<32, 51>>,
     LabelDonationCount \o <<32, 48>>,
     LabelTotalDonations \o <<32, 48, 48, 55>>,
     LabelContractName \o <<32, 102, 114, 116, 32, 67, 111, 110, 116, 114, 97, 99, 116, 32, 78, 97, 109, 101, 58, 32, 120>>,
     LabelContractVersion \o <<32, 49, 46, 48, 32>>,
     LabelContractVersion \o <<32, 50>>,
     LabelBuildDate,
     LabelRustVersion \o <<49>>,
     <<104, 101, 108, 108, 111>>}
LogLists == UNION {[1..n -> LogLines] : n \in 0..MaxLogLines}

Init ==
    /\ op = "none"
    /\ via = "function"
    /\ args = <<>>
    /\ pc = "idle"
    /\ requests = <<>>
    /\ responses = <<>>
    /\ result = Return(<<>>)
    /\ waiting = <<>>

(***************************************************************************)
(* index.ts: the operations FixedRatioTradingClient wraps; each wrapper    *)
(* hands its arguments, and for a network operation this.connection, to    *)
(* the function of the same name.                                          *)
(***************************************************************************)
ClientMethods ==
    {"getContractVersion", "getTreasuryInfo",
     "createInitializePoolInstruction", "getPoolPDAs", "doesPoolExist",
     "createDepositInstruction", "createWithdrawInstruction",
     "calculateDepositAmounts", "createSwapInstruction",
     "calculateExpectedSwapOutput", "calculateSwapWithPriceImpact",
     "isPoolPublicSwapEnabled", "createDonateSolInstruction",
     "createConsolidatePoolFeesInstruction"}

Callers(name) ==
    IF name \in ClientMethods THEN {"function", "client"} ELSE {"function"}

(***************************************************************************)
(* Synchronous operations: called and completed in one step, without a     *)
(* request to the transport.                                               *)
(***************************************************************************)
Called(name, a, r) ==
    /\ op' = name
    /\ via' \in Callers(name)
    /\ args' = a
    /\ result' = r
    /\ pc' = "done"
    /\ UNCHANGED <<requests, responses, waiting>>

Call_normalizeTokenOrder ==
    /\ pc = "idle"
    /\ \E a, b \in Keys :
           Called("normalizeTokenOrder", [tokenAMint |-> a, tokenBMint |-> b],
                Return(normalizeTokenOrder(a, b)))

Call_deriveSystemStatePDA ==
    /\ pc = "idle"
    /\ Called("deriveSystemStatePDA", <<>>, deriveSystemStatePDA)

Call_deriveMainTreasuryPDA ==
    /\ pc = "idle"
    /\ Called("deriveMainTreasuryPDA", <<>>, deriveMainTreasuryPDA)

Call_derivePoolStatePDA ==
    /\ pc = "idle"
    /\ \E a, b \in Keys, ra, rb \in PoolRatios :
           Called("derivePoolStatePDA",
                [tokenAMint |-> a, tokenBMint |-> b, ratioA |-> ra, ratioB |-> rb],
                derivePoolStatePDA(a, b, ra, rb))

Call_deriveTokenVaultPDAs ==
    /\ pc = "idle"
    /\ \E k \in Keys :
           Called("deriveTokenVaultPDAs", [poolStatePDA |-> k],
                deriveTokenVaultPDAs(k))

Call_deriveLPTokenMintPDAs ==
    /\ pc = "idle"
    /\ \E k \in Keys :
           Called("deriveLPTokenMintPDAs", [poolStatePDA |-> k],
                deriveLPTokenMintPDAs(k))

Call_calculateRequiredLiquidity ==
    /\ pc = "idle"
    /\ \E x \in Amounts, r1, r2 \in Ratios :
           Called("calculateRequiredLiquidity",
                [depositAmount |-> x, depositTokenRatio |-> r1,
                 otherTokenRatio |-> r2],
                calculateRequiredLiquidity(x, r1, r2))

Call_calculateSwapOutput ==
    /\ pc = "idle"
    /\ \E x \in SwapAmounts, r1, r2 \in SwapRatios :
           Called("calculateSwapOutput",
                [inputAmount |-> x, inputRatio |-> r1, outputRatio |-> r2],
                calculateSwapOutput(x, r1, r2))

Call_applySlippage ==
    /\ pc = "idle"
    /\ \E x \in Amounts, t \in Tolerances \ {<<>>} :
           Called("applySlippage",
                [expectedAmount |-> x, slippageTolerance |-> t[1]],
                applySlippage(x, t[1]))

Call_getMinAmountOut ==
    /\ pc = "idle"
    /\ \E x \in Amounts, t \in Tolerances \ {<<>>} :
           Called("getMinAmountOut",
                [expectedAmountOut |-> x, slippageTolerance |-> t[1]],
                getMinAmountOut(x, t[1]))

Call_toBasisPoints ==
    /\ pc = "idle"
    /\ \E amount \in DisplayAmounts, d \in Decimals :
           Called("toBasisPoints", [amount |-> amount, decimals |-> d],
                  toBasisPoints(amount, d))

Call_fromBasisPoints ==
    /\ pc = "idle"
    /\ \E x \in BasisPoints, d \in Decimals :
           Called("fromBasisPoints", [basisPoints |-> x, decimals |-> d],
                  fromBasisPoints(x, d))

Call_encodeMessage ==
    /\ pc = "idle"
    /\ \E m \in Messages :
           Called("encodeMessage", [message |-> m],
                Return(encodeMessage(m, MaxMessageLength)))

Call_createSwapInstruction ==
    /\ pc = "idle"
    /\ \E accts \in AccountLists, mint \in {KeyOf(65), KeyOf(128)},
          x \in Amounts, y \in ExpectedAmounts, t \in Tolerances :
           LET params == [poolStatePDA |-> accts[1], amountIn |-> x,
                          expectedAmountOut |-> y, inputTokenMint |-> mint,
                          userAuthority |-> accts[2],
                          userInputAccount |-> accts[3],
                          userOutputAccount |-> accts[4],
                          slippageTolerance |-> t]
           IN  Called("createSwapInstruction", params,
                    createSwapInstruction(params))

Call_calculateExpectedSwapOutput ==
    /\ pc = "idle"
    /\ \E x \in Amounts, r1, r2 \in Ratios, mint \in {KeyOf(65), KeyOf(128)} :
           Called("calculateExpectedSwapOutput",
                [amountIn |-> x, inputTokenMint |-> mint, poolRatioA |-> r1,
                 poolRatioB |-> r2, tokenAMint |-> KeyOf(65)],
                calculateExpectedSwapOutput(x, mint, r1, r2, KeyOf(65)))

Call_calculateSwapWithPriceImpact ==
    /\ pc = "idle"
    /\ \E x \in Amounts, b1, b2 \in Balances, mint \in {KeyOf(65), KeyOf(128)} :
           Called("calculateSwapWithPriceImpact",
                [amountIn |-> x, inputTokenMint |-> mint, poolBalanceA |-> b1,
                 poolBalanceB |-> b2, tokenAMint |-> KeyOf(65)],
                calculateSwapWithPriceImpact(x, mint, b1, b2, KeyOf(65)))

Call_validateSwapParams ==
    /\ pc = "idle"
    /\ \E x \in Amounts, y \in ExpectedAmounts, t \in Tolerances :
           LET params == [poolStatePDA |-> KeyOf(65), amountIn |-> x,
                          expectedAmountOut |-> y, inputTokenMint |-> KeyOf(128),
                          userAuthority |-> KeyOf(195),
                          userInputAccount |-> KeyOf(65),
                          userOutputAccount |-> KeyOf(128),
                          slippageTolerance |-> t]
           IN  Called("validateSwapParams", params,
                    Return(validateSwapParams(params)))

Call_getSwapFee ==
    /\ pc = "idle"
    /\ Called("getSwapFee", <<>>, Return(getSwapFee))

Call_createDepositInstruction ==
    /\ pc = "idle"
    /\ \E accts \in AccountLists, mint \in {KeyOf(65), KeyOf(128)},
          x \in Amounts :
           LET params == [poolStatePDA |-> accts[1], depositAmount |-> x,
                          depositTokenMint |-> mint,
                          userAuthority |-> accts[2],
                          userTokenAccount |-> accts[3],
                          userLpAccount |-> accts[4]]
           IN  Called("createDepositInstruction", params,
                    createDepositInstruction(params))

Call_createWithdrawInstruction ==
    /\ pc = "idle"
    /\ \E accts \in AccountLists, mint \in {KeyOf(65), KeyOf(128)},
          x \in Amounts :
           Called("createWithdrawInstruction",
                [poolStatePDA |-> accts[1], withdrawAmount |-> x,
                 withdrawTokenMint |-> mint, userAuthority |-> accts[2],
                 userLpAccount |-> accts[3], userTokenAccount |-> accts[4]],
                createWithdrawInstruction(accts[1], x, mint, accts[2],
                                          accts[3], accts[4]))

Call_calculateDepositAmounts ==
    /\ pc = "idle"
    /\ \E x \in Amounts, r1, r2 \in Ratios, mint \in {KeyOf(65), KeyOf(128)} :
           Called("calculateDepositAmounts",
                [depositAmount |-> x, depositTokenMint |-> mint,
                 poolRatioA |-> r1, poolRatioB |-> r2, tokenAMint |-> KeyOf(65)],
                calculateDepositAmounts(x, mint, r1, r2, KeyOf(65)))

Call_estimateLPTokensFromDeposit ==
    /\ pc = "idle"
    /\ \E x \in Amounts \cup {BN(500)}, b, supply \in Balances :
           Called("estimateLPTokensFromDeposit",
                [depositAmount |-> x, currentPoolBalance |-> b,
                 currentLpSupply |-> supply],
                estimateLPTokensFromDeposit(x, b, supply))

Call_estimateTokensFromWithdraw ==
    /\ pc = "idle"
    /\ \E x \in Amounts, b, supply \in Balances :
           Called("estimateTokensFromWithdraw",
                [lpAmount |-> x, currentPoolBalance |-> b,
                 currentLpSupply |-> supply],
                estimateTokensFromWithdraw(x, b, supply))

Call_validateDepositParams ==
    /\ pc = "idle"
    /\ \E x \in Amounts :
           LET params == [poolStatePDA |-> KeyOf(65), depositAmount |-> x,
                          depositTokenMint |-> KeyOf(128),
                          userAuthority |-> KeyOf(195),
                          userTokenAccount |-> KeyOf(65),
                          userLpAccount |-> KeyOf(128)]
           IN  Called("validateDepositParams", params,
                    Return(validateDepositParams(params)))

Call_validateWithdrawParams ==
    /\ pc = "idle"
    /\ \E x, balance \in Amounts :
           Called("validateWithdrawParams",
                [withdrawAmount |-> x, userLpBalance |-> balance],
                Return(validateWithdrawParams(x, balance)))

Call_createDonateSolInstruction ==
    /\ pc = "idle"
    /\ \E donor \in {KeyOf(65), KeyOf(195)}, x \in Amounts,
          m \in OptionalMessages :
           LET params == [donor |-> donor, amount |-> x, message |-> m]
           IN  Called("createDonateSolInstruction", params,
                    createDonateSolInstruction(params))

Call_createConsolidatePoolFeesInstruction ==
    /\ pc = "idle"
    /\ \E pools \in PoolLists :
           Called("createConsolidatePoolFeesInstruction",
                [poolStatePDAs |-> pools],
                createConsolidatePoolFeesInstruction(pools))

Call_validateDonationParams ==
    /\ pc = "idle"
    /\ \E x \in Amounts \cup {MIN_DONATION_AMOUNT, Pow10(12)},
          m \in OptionalMessages :
           LET params == [donor |-> KeyOf(65), amount |-> x, message |-> m]
           IN  Called("validateDonationParams", params,
                    Return(validateDonationParams(params)))

Call_validateConsolidationParams ==
    /\ pc = "idle"
    /\ \E pools \in PoolLists :
           Called("validateConsolidationParams", [poolStatePDAs |-> pools],
                Return(validateConsolidationParams(pools)))

Call_createInitializePoolInstruction ==
    /\ pc = "idle"
    /\ \E a, b \in Keys, ra, rb \in PoolRatios :
           LET params == [tokenAMint |-> a, tokenBMint |-> b, ratioA |-> ra,
                          ratioB |-> rb, userAuthority |-> KeyOf(195)]
           IN  Called("createInitializePoolInstruction", params,
                    createInitializePoolInstruction(params))

Call_getPoolPDAs ==
    /\ pc = "idle"
    /\ \E a, b \in Keys, ra, rb \in PoolRatios :
           Called("getPoolPDAs",
                [tokenAMint |-> a, tokenBMint |-> b, ratioA |-> ra, ratioB |-> rb],
                getPoolPDAs(a, b, ra, rb))

Call_validatePoolCreationParams ==
    /\ pc = "idle"
    /\ \E a, b \in Keys, ra, rb \in Ratios :
           LET params == [tokenAMint |-> a, tokenBMint |-> b, ratioA |-> ra,
                          ratioB |-> rb, userAuthority |-> KeyOf(195)]
           IN  Called("validatePoolCreationParams", params,
                    Return(validatePoolCreationParams(params)))

Call_createGetTreasuryInfoInstruction ==
    /\ pc = "idle"
    /\ Called("createGetTreasuryInfoInstruction", <<>>,
            createGetTreasuryInfoInstruction)

Call_createGetVersionInstruction ==
    /\ pc = "idle"
    /\ Called("createGetVersionInstruction", <<>>, createGetVersionInstruction)

(***************************************************************************)
(* The transport: what a Connection can answer to a request.  A rejected   *)
(* promise is a Throw of the error's message.                              *)
(***************************************************************************)

TransportErrors == {"fetch failed"}

BlockhashResponses ==
    {Throw(e) : e \in TransportErrors}
        \cup {Return([blockhash |-> "blockhash", lastValidBlockHeight |-> 1])}

\* value.err is null (Unset) or the error of the simulated transaction;
\* value.logs is null (Unset) or the log lines
SimulationResponses ==
    {Throw(e) : e \in TransportErrors}
        \cup {Return([err |-> e, logs |-> l]) :
                 e \in {Unset, <<"AccountNotFound">>},
                 l \in {Unset} \cup {<<logs>> : logs \in LogLists}}

\* null (Unset), or an account with its data
AccountInfoResponses ==
    {Throw(e) : e \in TransportErrors}
        \cup {Return(Unset), Return(<<[data |-> <<>>]>>),
              Return(<<[data |-> <<1>>]>>)}

Request(method, argument) == [method |-> method, argument |-> argument]

\* the start of an async operation: everything up to its first await
Sent(name, a, request, await) ==
    /\ op' = name
    /\ via' \in Callers(name)
    /\ args' = a
    /\ requests' = <<request>>
    /\ pc' = await
    /\ UNCHANGED <<responses, result, waiting>>

\* an await that is answered by response, after which the operation
\* settles with r
Settled(response, r) ==
    /\ responses' = Append(responses, response)
    /\ result' = r
    /\ pc' = "done"
    /\ UNCHANGED <<op, via, args, requests, waiting>>

\* an await that is answered by response, after which the operation sends
\* the next request
Proceeded(response, request, nextAwait) ==
    /\ responses' = Append(responses, response)
    /\ requests' = Append(requests, request)
    /\ pc' = nextAwait
    /\ UNCHANGED <<op, via, args, result, waiting>>

\* simulation.value.logs || []
LogsOrEmpty(logs) == IF logs = Unset THEN <<>> ELSE logs[1]

\* JSON.stringify of an error that is a string
JSONStringify(e) == "\"" \o e \o "\""

(***************************************************************************)
(* getContractVersion                                                      *)
(***************************************************************************)
getContractVersion_Fail(message) ==
    Throw("Failed to get contract version: " \o message)

getContractVersion_Simulated(simulation) ==
    IF ~simulation.ok THEN getContractVersion_Fail(simulation.error)
    ELSE IF simulation.value.err # Unset
    THEN Return(extractVersionFromLogs(LogsOrEmpty(simulation.value.logs)))
    ELSE Return(extractVersionFromLogs(LogsOrEmpty(simulation.value.logs)))

getContractVersion_Call ==
    /\ pc = "idle"
    /\ Sent("getContractVersion", <<>>, Request("getLatestBlockhash", <<>>),
            "getLatestBlockhash")

\* a query that asks for the blockhash once more when the first request
\* failed
getContractVersion_BlockhashRetried ==
    /\ pc = "getLatestBlockhash"
    /\ op = "getContractVersion"
    /\ \E r \in BlockhashResponses :
           IF r.ok
           THEN Proceeded(r, Request("simulateTransaction",
                                createGetVersionInstruction.value),
                        "simulateTransaction")
           ELSE IF Len(requests) < 2
           THEN Proceeded(r, Request("getLatestBlockhash", <<>>),
                          "getLatestBlockhash")
           ELSE Settled(r, getContractVersion_Fail(r.error))

getContractVersion_Blockhash ==
    /\ pc = "getLatestBlockhash"
    /\ op = "getContractVersion"
    /\ \E r \in BlockhashResponses :
           IF r.ok
           THEN Proceeded(r, Request("simulateTransaction",
                                createGetVersionInstruction.value),
                        "simulateTransaction")
           ELSE Settled(r, getContractVersion_Fail(r.error))

getContractVersion_Simulation ==
    /\ pc = "simulateTransaction"
    /\ op = "getContractVersion"
    /\ \E r \in SimulationResponses :
           Settled(r, getContractVersion_Simulated(r))

(***************************************************************************)
(* getTreasuryInfo                                                         *)
(***************************************************************************)

getTreasuryInfo_Fail(message) ==
    Throw("Failed to get treasury info: " \o message)

\* a query that reads the logs of a failed simulation as well
getTreasuryInfo_SimulatedAnyway(simulation) ==
    IF ~simulation.ok THEN getTreasuryInfo_Fail(simulation.error)
    ELSE Return(parseTreasuryInfoFromLogs(LogsOrEmpty(simulation.value.logs)))

getTreasuryInfo_Simulated(simulation) ==
    IF ~simulation.ok THEN getTreasuryInfo_Fail(simulation.error)
    ELSE IF simulation.value.err # Unset
    THEN getTreasuryInfo_Fail("Treasury info simulation failed: "
                                  \o JSONStringify(simulation.value.err[1]))
    ELSE Return(parseTreasuryInfoFromLogs(LogsOrEmpty(simulation.value.logs)))

getTreasuryInfo_Call ==
    /\ pc = "idle"
    /\ IF createGetTreasuryInfoInstruction.ok
       THEN Sent("getTreasuryInfo", <<>>, Request("getLatestBlockhash", <<>>),
                 "getLatestBlockhash")
       ELSE Called("getTreasuryInfo", <<>>,
                 getTreasuryInfo_Fail(createGetTreasuryInfoInstruction.error))

getTreasuryInfo_Blockhash ==
    /\ pc = "getLatestBlockhash"
    /\ op = "getTreasuryInfo"
    /\ \E r \in BlockhashResponses :
           IF r.ok
           THEN Proceeded(r, Request("simulateTransaction",
                                createGetTreasuryInfoInstruction.value),
                        "simulateTransaction")
           ELSE Settled(r, getTreasuryInfo_Fail(r.error))

getTreasuryInfo_Simulation ==
    /\ pc = "simulateTransaction"
    /\ op = "getTreasuryInfo"
    /\ \E r \in SimulationResponses :
           Settled(r, getTreasuryInfo_Simulated(r))

(***************************************************************************)
(* doesPoolExist                                                           *)
(***************************************************************************)

doesPoolExist_Fetched(accountInfo) ==
    IF ~accountInfo.ok THEN Return(FALSE)
    ELSE Return(accountInfo.value # Unset
                    /\ Len(accountInfo.value[1].data) > 0)

doesPoolExist_Call ==
    /\ pc = "idle"
    /\ \E k \in Keys :
           Sent("doesPoolExist", [poolStatePDA |-> k],
                Request("getAccountInfo", k), "getAccountInfo")

doesPoolExist_AccountInfo ==
    /\ pc = "getAccountInfo"
    /\ op = "doesPoolExist"
    /\ \E r \in AccountInfoResponses :
           Settled(r, doesPoolExist_Fetched(r))

(***************************************************************************)
(* isPoolPublicSwapEnabled                                                 *)
(***************************************************************************)

isPoolPublicSwapEnabled_Fail(error) ==
    Throw("Failed to check pool swap mode: " \o error)

\* a caught Error prints as "Error: " and its message
isPoolPublicSwapEnabled_Fetched(accountInfo) ==
    IF ~accountInfo.ok
    THEN isPoolPublicSwapEnabled_Fail("Error: " \o accountInfo.error)
    ELSE IF accountInfo.value = Unset
    THEN isPoolPublicSwapEnabled_Fail("Error: Pool not found")
    ELSE Return(TRUE)

\* the answer given without reading the pool's account
isPoolPublicSwapEnabled_Unread ==
    /\ pc = "idle"
    /\ \E k \in Keys :
           Called("isPoolPublicSwapEnabled", [poolStatePDA |-> k],
                  Return(TRUE))

isPoolPublicSwapEnabled_Call ==
    /\ pc = "idle"
    /\ \E k \in Keys :
           Sent("isPoolPublicSwapEnabled", [poolStatePDA |-> k],
                Request("getAccountInfo", k), "getAccountInfo")

isPoolPublicSwapEnabled_AccountInfo ==
    /\ pc = "getAccountInfo"
    /\ op = "isPoolPublicSwapEnabled"
    /\ \E r \in AccountInfoResponses :
           Settled(r, isPoolPublicSwapEnabled_Fetched(r))

(***************************************************************************)
(* The caller takes the outcome; nothing of a call outlives it.            *)
(***************************************************************************)
Complete ==
    /\ pc = "done"
    /\ op' = "none"
    /\ via' = "function"
    /\ args' = <<>>
    /\ pc' = "idle"
    /\ requests' = <<>>
    /\ responses' = <<>>
    /\ result' = Return(<<>>)
    /\ UNCHANGED waiting

Next ==
    \/ Call_normalizeTokenOrder
    \/ Call_deriveSystemStatePDA
    \/ Call_deriveMainTreasuryPDA
    \/ Call_derivePoolStatePDA
    \/ Call_deriveTokenVaultPDAs
    \/ Call_deriveLPTokenMintPDAs
    \/ Call_calculateRequiredLiquidity
    \/ Call_calculateSwapOutput
    \/ Call_applySlippage
    \/ Call_getMinAmountOut
    \/ Call_toBasisPoints
    \/ Call_fromBasisPoints
    \/ Call_encodeMessage
    \/ Call_createSwapInstruction
    \/ Call_calculateExpectedSwapOutput
    \/ Call_calculateSwapWithPriceImpact
    \/ Call_validateSwapParams
    \/ Call_getSwapFee
    \/ Call_createDepositInstruction
    \/ Call_createWithdrawInstruction
    \/ Call_calculateDepositAmounts
    \/ Call_estimateLPTokensFromDeposit
    \/ Call_estimateTokensFromWithdraw
    \/ Call_validateDepositParams
    \/ Call_validateWithdrawParams
    \/ Call_createDonateSolInstruction
    \/ Call_createConsolidatePoolFeesInstruction
    \/ Call_validateDonationParams
    \/ Call_validateConsolidationParams
    \/ Call_createInitializePoolInstruction
    \/ Call_getPoolPDAs
    \/ Call_validatePoolCreationParams
    \/ Call_createGetTreasuryInfoInstruction
    \/ Call_createGetVersionInstruction
    \/ getContractVersion_Call
    \/ getContractVersion_Blockhash
    \/ getContractVersion_Simulation
    \/ getTreasuryInfo_Call
    \/ getTreasuryInfo_Blockhash
    \/ getTreasuryInfo_Simulation
    \/ doesPoolExist_Call
    \/ doesPoolExist_AccountInfo
    \/ isPoolPublicSwapEnabled_Call
    \/ isPoolPublicSwapEnabled_AccountInfo
    \/ Complete

Spec == Init /\ [][Next]_vars

(***************************************************************************)
(* Concurrent invocations.  An async function runs until its next await;   *)
(* while it waits for the transport's answer the event loop runs whatever  *)
(* else is ready: the start of another invocation, or the continuation of  *)
(* an invocation whose answer has arrived.  Everything an invocation holds *)
(* is local to it (utils.ts and index.ts keep no module-level or static    *)
(* state, and the client only reads this.connection), so a suspended       *)
(* invocation is its frame.                                                *)
(***************************************************************************)
MaxWaiting == 1

AwaitPoints == {"getLatestBlockhash", "simulateTransaction", "getAccountInfo"}

Frame ==
    [op |-> op, via |-> via, args |-> args, pc |-> pc, requests |-> requests,
     responses |-> responses, result |-> result]

\* suspending that leaves the answers received so far where the next
\* invocation finds them
Suspend_AnswersShared ==
    /\ pc \in AwaitPoints
    /\ Len(waiting) < MaxWaiting
    /\ waiting' = Append(waiting, Frame)
    /\ op' = "none"
    /\ via' = "function"
    /\ args' = <<>>
    /\ pc' = "idle"
    /\ requests' = <<>>
    /\ result' = Return(<<>>)
    /\ UNCHANGED responses

\* the invocation in progress is at an await: it is set aside with all it
\* holds and the event loop is free
Suspend ==
    /\ pc \in AwaitPoints
    /\ Len(waiting) < MaxWaiting
    /\ waiting' = Append(waiting, Frame)
    /\ op' = "none"
    /\ via' = "function"
    /\ args' = <<>>
    /\ pc' = "idle"
    /\ requests' = <<>>
    /\ responses' = <<>>
    /\ result' = Return(<<>>)

\* the answer to a waiting invocation's request is ready: the invocation
\* continues from where it was set aside
Resume ==
    /\ pc = "idle"
    /\ \E i \in 1..Len(waiting) :
           /\ op' = waiting[i].op
           /\ via' = waiting[i].via
           /\ args' = waiting[i].args
           /\ pc' = waiting[i].pc
           /\ requests' = waiting[i].requests
           /\ responses' = waiting[i].responses
           /\ result' = waiting[i].result
           /\ waiting' = SubSeq(waiting, 1, i - 1)
                             \o SubSeq(waiting, i + 1, Len(waiting))

NextConcurrent ==
    \/ getContractVersion_Call
    \/ getContractVersion_Blockhash
    \/ getContractVersion_Simulation
    \/ getTreasuryInfo_Call
    \/ getTreasuryInfo_Blockhash
    \/ getTreasuryInfo_Simulation
    \/ doesPoolExist_Call
    \/ doesPoolExist_AccountInfo
    \/ Suspend
    \/ Resume
    \/ Complete

Concurrent == Init /\ [][NextConcurrent]_vars

(***************************************************************************)
(* Properties.  Every property is read off a completed call: its           *)
(* arguments, the requests it sent and what it returned or raised.         *)
(***************************************************************************)
Done(name) == pc = "done" /\ op = name

(***************************************************************************)
(* C1.  For every pair of token identities and every ratio pair,           *)
(* derivePoolStatePDA(a, b, ratioA, ratioB) and                            *)
(* derivePoolStatePDA(b, a, ratioA, ratioB) return the identical           *)
(* (address, bump): swapping the two token arguments never changes the     *)
(* derived pool address.                                                   *)
(***************************************************************************)
C1_SwappedTokensSamePool ==
    Done("derivePoolStatePDA") =>
        result = derivePoolStatePDA(args.tokenBMint, args.tokenAMint,
                                    args.ratioA, args.ratioB)

\* two tokens whose two orders derive two pool addresses
C1_SwappedTokensOtherPool ==
    /\ Done("derivePoolStatePDA")
    /\ result.ok
    /\ derivePoolStatePDA(args.tokenBMint, args.tokenAMint,
                          args.ratioA, args.ratioB).ok
    /\ result.value[1] # derivePoolStatePDA(args.tokenBMint, args.tokenAMint,
                                            args.ratioA, args.ratioB).value[1]

(***************************************************************************)
(* C2.  normalizeTokenOrder(x, y) returns the two token identities with    *)
(* the byte-lexicographically lower one first, for every pair of           *)
(* identities and whatever the order the caller passed them in.            *)
(***************************************************************************)
C2_LowerBytesFirst ==
    Done("normalizeTokenOrder") =>
        /\ {result.value[1], result.value[2]}
               = {args.tokenAMint, args.tokenBMint}
        /\ ~BytesLess(result.value[2], result.value[1])

\* a pair that is returned with the higher byte sequence first
C2_HigherBytesFirst ==
    /\ Done("normalizeTokenOrder")
    /\ BytesLess(result.value[2], result.value[1])

(***************************************************************************)
(* C3.  For a list of n pool addresses,                                    *)
(* createConsolidatePoolFeesInstruction writes poolCount = min(n, 20) and  *)
(* appends exactly the first min(n, 20) addresses, in the caller's order,  *)
(* after the three fixed account references; a list longer than 20 is      *)
(* truncated without an error, while validateConsolidationParams reports   *)
(* the same list as invalid.                                               *)
(***************************************************************************)
C3_ConsolidationTruncatesAt20 ==
    /\ Done("createConsolidatePoolFeesInstruction") =>
           LET pools == args.poolStatePDAs
               kept == IF Len(pools) < 20 THEN Len(pools) ELSE 20
           IN  /\ result.ok
               /\ result.value.data = <<15, kept, 0, 0, 0>>
               /\ Len(result.value.keys) = 3 + kept
               /\ result.value.keys[1].pubkey = deriveSystemStatePDA.value[1]
               /\ result.value.keys[2].pubkey = deriveMainTreasuryPDA.value[1]
               /\ result.value.keys[3].pubkey = SystemProgramId
               /\ \A i \in 1..kept :
                      result.value.keys[3 + i].pubkey = pools[i]
    /\ (Done("validateConsolidationParams") /\ Len(args.poolStatePDAs) > 20)
           => /\ ~result.value.isValid
              /\ \E i \in 1..Len(result.value.errors) :
                     result.value.errors[i]
                         = "Maximum 20 pools per consolidation transaction"

\* a list of 22 pools encoded with 20 of them
C3_LongListTruncated ==
    /\ Done("createConsolidatePoolFeesInstruction")
    /\ Len(args.poolStatePDAs) = 22
    /\ result.ok
    /\ Len(result.value.keys) = 23
    /\ result.value.keys[23].pubkey = args.poolStatePDAs[20]

(***************************************************************************)
(* C4.  For every donation message, including messages with multi-byte     *)
(* characters, the message bytes that createDonateSolInstruction and       *)
(* encodeMessage put into the payload are at most 200 bytes long.  The     *)
(* message bytes follow the 4-byte length, which in a donation follows the *)
(* opcode and the 8-byte amount.                                           *)
(***************************************************************************)
C4_MessageAtMost200Bytes ==
    /\ (Done("createDonateSolInstruction") /\ result.ok)
           => Len(result.value.data) - 13 <= 200
    /\ Done("encodeMessage") => Len(result.value) - 4 <= 200

\* a donation whose payload carries more than 200 message bytes
C4_MessageOver200Bytes ==
    /\ Done("createDonateSolInstruction")
    /\ result.ok
    /\ args.message # <<>>
    /\ Len(args.message[1]) = 200
    /\ Len(result.value.data) - 13 > 200

(***************************************************************************)
(* C5.  createSwapInstruction applies the caller's slippage tolerance      *)
(* whenever one is provided: for every provided integer tolerance t in     *)
(* [0,50], t = 0 included, the minAmountOut field of the payload (its last *)
(* 8 bytes) equals applySlippage(expectedAmountOut, t); the 1% default is  *)
(* used only when no tolerance is provided.                                *)
(***************************************************************************)
MinAmountOutField(data) == SubSeq(data, Len(data) - 7, Len(data))

EncodedMinAmountOut(expectedAmountOut, t) ==
    Then(applySlippage(expectedAmountOut, t), LAMBDA v : ToArrayLikeLE(v, 8))

C5_ProvidedToleranceApplied ==
    (Done("createSwapInstruction") /\ result.ok) =>
        LET t == args.slippageTolerance
            field == Return(MinAmountOutField(result.value.data))
        IN  /\ (t # <<>> /\ t[1] \in 0..50)
                   => field = EncodedMinAmountOut(args.expectedAmountOut, t[1])
            /\ t = <<>>
                   => field = EncodedMinAmountOut(args.expectedAmountOut, 1)

\* a swap with tolerance 0 whose minAmountOut is that of the 1% default
C5_ZeroToleranceDefaulted ==
    /\ Done("createSwapInstruction")
    /\ result.ok
    /\ args.slippageTolerance = <<0>>
    /\ Return(MinAmountOutField(result.value.data))
           = EncodedMinAmountOut(args.expectedAmountOut, 1)
    /\ Return(MinAmountOutField(result.value.data))
           # EncodedMinAmountOut(args.expectedAmountOut, 0)

(***************************************************************************)
(* C6.  Every division performed by the ratio math                         *)
(* (calculateRequiredLiquidity, calculateSwapOutput,                       *)
(* calculateExpectedSwapOutput, calculateDepositAmounts,                   *)
(* calculateSwapWithPriceImpact with its price-impact quotients) raises an *)
(* error when its divisor is zero; the only zero-divisor cases that return *)
(* a value are the bootstrap branches of estimateLPTokensFromDeposit and   *)
(* estimateTokensFromWithdraw.                                             *)
(***************************************************************************)
\* the pool value on the side of the input token, and on the other side
InputSide(a, b) == IF args.inputTokenMint = args.tokenAMint THEN a ELSE b
OutputSide(a, b) == IF args.inputTokenMint = args.tokenAMint THEN b ELSE a

C6_ZeroDivisorRaises ==
    /\ (Done("calculateRequiredLiquidity") /\ BNisZero(args.depositTokenRatio))
           => ~result.ok
    /\ (Done("calculateSwapOutput") /\ BNisZero(args.inputRatio))
           => ~result.ok
    /\ (/\ Done("calculateExpectedSwapOutput")
        /\ BNisZero(InputSide(args.poolRatioA, args.poolRatioB)))
           => ~result.ok
    /\ (/\ Done("calculateDepositAmounts")
        /\ BNisZero(IF args.depositTokenMint = args.tokenAMint
                    THEN args.poolRatioA ELSE args.poolRatioB))
           => ~result.ok
    \* amountOut = amountIn * out / in, idealPrice = out / in,
    \* actualPrice = amountOut / amountIn, and the impact divides by
    \* idealPrice, which is zero when out is
    /\ (/\ Done("calculateSwapWithPriceImpact")
        /\ \/ BNisZero(InputSide(args.poolBalanceA, args.poolBalanceB))
           \/ BNisZero(args.amountIn)
           \/ BNisZero(OutputSide(args.poolBalanceA, args.poolBalanceB)))
           => ~result.ok
    /\ (Done("estimateLPTokensFromDeposit") /\ BNisZero(args.currentPoolBalance))
           => result = Return(args.depositAmount)
    /\ (Done("estimateTokensFromWithdraw") /\ BNisZero(args.currentLpSupply))
           => result = Return(BN(0))

\* a price impact that divided by zero and was returned, as NaN
C6_PriceImpactNaNReturned ==
    /\ Done("calculateSwapWithPriceImpact")
    /\ BNisZero(args.amountIn)
    /\ result.ok
    /\ result.value.priceImpact = NaN

(***************************************************************************)
(* C7.  As stated: for each of the three network operations                *)
(* (getContractVersion, getTreasuryInfo, doesPoolExist), whenever the      *)
(* transport call fails or the simulation reports an error, the operation  *)
(* raises an error to its caller instead of returning a normal result.     *)
(***************************************************************************)
TransportFailed == \E i \in 1..Len(responses) : ~responses[i].ok

SimulationFailed ==
    \E i \in 1..Len(responses) :
        /\ requests[i].method = "simulateTransaction"
        /\ responses[i].ok
        /\ responses[i].value.err # Unset

C8_OnlyThreeCallTransport ==
    op \notin {"getContractVersion", "getTreasuryInfo", "doesPoolExist"}
        => requests = <<>>

(***************************************************************************)
(* C8, amended.  Four operations call the transport, and each of them on   *)
(* every call: the version query and the treasury query (getLatestBlockhash*)
(* then simulateTransaction), the pool-existence check and                 *)
(* isPoolPublicSwapEnabled (getAccountInfo); every other operation         *)
(* exposed by the library and by FixedRatioTradingClient completes without *)
(* any transport call.                                                     *)
(***************************************************************************)
C8_OnlyFourCallTransport ==
    /\ op \notin {"getContractVersion", "getTreasuryInfo", "doesPoolExist",
                  "isPoolPublicSwapEnabled"}
           => requests = <<>>
    /\ (pc = "done" /\ op \in {"getContractVersion", "getTreasuryInfo"})
           => /\ requests # <<>>
              /\ requests[1].method = "getLatestBlockhash"
              /\ \A i \in 2..Len(requests) :
                     requests[i].method = "simulateTransaction"
    /\ (pc = "done" /\ op \in {"doesPoolExist", "isPoolPublicSwapEnabled"})
           => requests = <<[method |-> "getAccountInfo",
                            argument |-> args.poolStatePDA]>>

\* the client's isPoolPublicSwapEnabled, completed after reading the account
C8_SwapModeReadsAccount ==
    /\ Done("isPoolPublicSwapEnabled")
    /\ via = "client"
    /\ Len(requests) = 1
    /\ requests[1].method = "getAccountInfo"
    /\ result.ok

(***************************************************************************)
(* C9.  Every validator (pool creation, deposit, withdraw, swap, donation, *)
(* consolidation) evaluates all of its checks on every call and returns    *)
(* one error string per violated check, in check order, never stopping at  *)
(* the first violation; in particular a pool-creation request with         *)
(* ratioA <= 0 and tokenA = tokenB (ratioB valid) returns isValid = false  *)
(* with exactly two distinct error strings.                                *)
(***************************************************************************)
\* the checks of the validator that was called: whether each is violated,
\* and its error string
ChecksOfCall ==
    IF op = "validatePoolCreationParams" THEN
        <<<<BNlte(args.ratioA, BN(0)), "Ratio A must be positive">>,
          <<BNlte(args.ratioB, BN(0)), "Ratio B must be positive">>,
          <<args.tokenAMint = args.tokenBMint,
            "Token A and Token B must be different">>,
          <<BNgte(args.ratioA, Pow10(18)) \/ BNgte(args.ratioB, Pow10(18)),
            "Ratios too large (max 10^18)">>>>
    ELSE IF op = "validateDepositParams" THEN
        <<<<BNlte(args.depositAmount, BN(0)),
            "Deposit amount must be positive">>,
          <<BNgte(args.depositAmount, Pow10(15)),
            "Deposit amount too large">>>>
    ELSE IF op = "validateWithdrawParams" THEN
        <<<<BNlte(args.withdrawAmount, BN(0)),
            "Withdraw amount must be positive">>,
          <<BNgt(args.withdrawAmount, args.userLpBalance),
            "Insufficient LP token balance">>>>
    ELSE IF op = "validateSwapParams" THEN
        <<<<BNlte(args.amountIn, BN(0)), "Input amount must be positive">>,
          <<BNlte(args.expectedAmountOut, BN(0)),
            "Expected output amount must be positive">>,
          <<args.slippageTolerance \in {<<t>> : t \in (-5..-1) \cup (51..55)},
            "Slippage tolerance must be between 0 and 50 percent">>,
          <<BNgte(args.amountIn, Pow10(15)), "Swap amount too large">>>>
    ELSE IF op = "validateDonationParams" THEN
        <<<<BNlt(args.amount, BN(100000000)), "Minimum donation is 0.1 SOL">>,
          <<BNgt(args.amount, Pow10(12)),
            "Donation amount too large (max 1000 SOL)">>,
          <<args.message # <<>> /\ Len(args.message[1]) > 200,
            "Message too long (max 200 characters)">>>>
    ELSE IF op = "validateConsolidationParams" THEN
        <<<<args.poolStatePDAs = <<>>,
            "At least one pool must be specified">>,
          <<Len(args.poolStatePDAs) > 20,
            "Maximum 20 pools per consolidation transaction">>,
          <<Cardinality(Range(args.poolStatePDAs)) # Len(args.poolStatePDAs),
            "Duplicate pools found in consolidation list">>>>
    ELSE <<>>

RECURSIVE Violations(_)
Violations(checks) ==
    IF checks = <<>> THEN <<>>
    ELSE (IF Head(checks)[1] THEN <<Head(checks)[2]>> ELSE <<>>)
             \o Violations(Tail(checks))

C9_AllViolationsReported ==
    /\ (/\ pc = "done"
        /\ op \in {"validatePoolCreationParams", "validateDepositParams",
                   "validateWithdrawParams", "validateSwapParams",
                   "validateDonationParams", "validateConsolidationParams"})
           => /\ result.ok
              /\ result.value.errors = Violations(ChecksOfCall)
              /\ result.value.isValid = (result.value.errors = <<>>)
    /\ (/\ Done("validatePoolCreationParams")
        /\ BNlte(args.ratioA, BN(0))
        /\ args.tokenAMint = args.tokenBMint
        /\ BNgt(args.ratioB, BN(0))
        /\ BNlt(args.ratioB, Pow10(18)))
           => /\ ~result.value.isValid
              /\ Len(result.value.errors) = 2
              /\ result.value.errors[1] # result.value.errors[2]

\* a pool creation of a token with itself at a ratio of 0 : 3
C9_TwoErrorsReported ==
    /\ Done("validatePoolCreationParams")
    /\ args.ratioA = BN(0)
    /\ args.ratioB = BN(3)
    /\ args.tokenAMint = args.tokenBMint
    /\ result.value.errors = <<"Ratio A must be positive",
                               "Token A and Token B must be different">>

(***************************************************************************)
(* C10.  parseTreasuryInfoFromLogs never fails: for every list of log      *)
(* lines, each of the six treasury fields for which no line carries its    *)
(* label followed by digits is returned as zero, and the empty list yields *)
(* a snapshot whose six numeric fields are all zero.  The parser is what   *)
(* getTreasuryInfo returns of the logs of a simulation without error.      *)
(***************************************************************************)
\* the line holds the label, then white space if any, then a digit
Carries(log, label) ==
    \E i \in 1..Len(log) :
        /\ StartsAt(log, i, label)
        /\ \E j \in (i + Len(label))..Len(log) :
               /\ IsDigit(log[j])
               /\ \A k \in (i + Len(label))..(j - 1) : IsWhiteSpace(log[k])

ParsedLogs ==
    IF responses[2].value.logs = Unset THEN <<>>
    ELSE responses[2].value.logs[1]

NoLineCarries(label) ==
    \A i \in 1..Len(ParsedLogs) : ~Carries(ParsedLogs[i], label)

C10_MissingFieldsAreZero ==
    (/\ Done("getTreasuryInfo")
     /\ Len(responses) = 2
     /\ responses[2].ok
     /\ responses[2].value.err = Unset)
        => /\ result.ok
           /\ NoLineCarries(LabelTotalBalance)
                  => result.value.totalBalance = BN(0)
           /\ NoLineCarries(LabelTotalFeesCollected)
                  => result.value.totalFeesCollected = BN(0)
           /\ NoLineCarries(LabelLastWithdrawal)
                  => result.value.lastWithdrawalTime = BN(0)
           /\ NoLineCarries(LabelWithdrawalCount)
                  => result.value.withdrawalCount = 0
           /\ NoLineCarries(LabelDonationCount)
                  => result.value.donationCount = 0
           /\ NoLineCarries(LabelTotalDonations)
                  => result.value.totalDonations = BN(0)
           /\ ParsedLogs = <<>>
                  => result.value
                         = [totalBalance |-> BN(0),
                            totalFeesCollected |-> BN(0),
                            lastWithdrawalTime |-> BN(0),
                            withdrawalCount |-> 0, donationCount |-> 0,
                            totalDonations |-> BN(0)]

\* logs that name the balance without digits behind the label, and carry
\* the fees: the balance is zero, the fees are read
C10_LabelWithoutDigitsIsZero ==
    /\ Done("getTreasuryInfo")
    /\ result.ok
    /\ \E i \in 1..Len(ParsedLogs) : Includes(ParsedLogs[i], LabelTotalBalance)
    /\ NoLineCarries(LabelTotalBalance)
    /\ result.value.totalBalance = BN(0)
    /\ result.value.totalFeesCollected = BN(5)

(***************************************************************************)
(* C11.  calculateSwapOutput(amountIn, ratioIn, ratioOut) equals           *)
(* floor(amountIn * ratioOut / ratioIn) for all non-negative amountIn and  *)
(* positive ratios, with no fee subtracted; calculateSwapOutput(100, 1,    *)
(* 160) = 16000.  calculateExpectedSwapOutput returns this value with      *)
(* (ratioA, ratioB) as (in, out) when the input token is token A and with  *)
(* the ratios exchanged otherwise.                                         *)
(***************************************************************************)
\* q = floor(n / d), for d > 0:  q * d <= n < (q + 1) * d
IsFloorOf(q, n, d) ==
    /\ BNlte(BNmul(q, d), n)
    /\ BNlt(n, BNmul(BNadd(q, BN(1)), d))

C11_SwapOutputIsFloor ==
    /\ (/\ Done("calculateSwapOutput")
        /\ BNgte(args.inputAmount, BN(0))
        /\ BNgt(args.inputRatio, BN(0))
        /\ BNgt(args.outputRatio, BN(0)))
           => /\ result.ok
              /\ IsFloorOf(result.value,
                           BNmul(args.inputAmount, args.outputRatio),
                           args.inputRatio)
    /\ (/\ Done("calculateSwapOutput")
        /\ args = [inputAmount |-> BN(100), inputRatio |-> BN(1),
                   outputRatio |-> BN(160)])
           => result = Return(BN(16000))
    /\ (/\ Done("calculateExpectedSwapOutput")
        /\ BNgte(args.amountIn, BN(0))
        /\ BNgt(args.poolRatioA, BN(0))
        /\ BNgt(args.poolRatioB, BN(0)))
           => /\ result.ok
              /\ IsFloorOf(result.value,
                           BNmul(args.amountIn,
                                 OutputSide(args.poolRatioA, args.poolRatioB)),
                           InputSide(args.poolRatioA, args.poolRatioB))

\* 100 swapped at 1 : 160
C11_HundredAtOneTo160 ==
    /\ Done("calculateSwapOutput")
    /\ args.inputAmount = BN(100)
    /\ args.inputRatio = BN(1)
    /\ args.outputRatio = BN(160)
    /\ result = Return(BN(16000))

(***************************************************************************)
(* C12.  For every expected amount e >= 0 and every integer tolerance t in *)
(* [0,50], applySlippage(e, t) = floor(e * (10000 - 100*t) / 10000); hence *)
(* applySlippage(1000, 1) = 990, applySlippage(1000, 0) = 1000, and the    *)
(* result never exceeds e.                                                 *)
(***************************************************************************)
C12_SlippageIsFloor ==
    (/\ Done("applySlippage")
     /\ BNgte(args.expectedAmount, BN(0))
     /\ args.slippageTolerance \in 0..50)
        => /\ result.ok
           /\ IsFloorOf(result.value,
                        BNmul(args.expectedAmount,
                              BN(10000 - 100 * args.slippageTolerance)),
                        BN(10000))
           /\ BNlte(result.value, args.expectedAmount)
           /\ (args.expectedAmount = BN(1000) /\ args.slippageTolerance = 1)
                  => result.value = BN(990)
           /\ (args.expectedAmount = BN(1000) /\ args.slippageTolerance = 0)
                  => result.value = BN(1000)

\* an amount of 1 at a tolerance of 1%: 0.99, rounded down to 0
C12_OneAtOnePercent ==
    /\ Done("applySlippage")
    /\ args.expectedAmount = BN(1)
    /\ args.slippageTolerance = 1
    /\ result = Return(BN(0))

(***************************************************************************)
(* C13.  validateSwapParams reports a slippage error exactly when a        *)
(* provided tolerance lies outside [0,50] (51 and every negative value are *)
(* rejected, 0 and 50 are accepted); an out-of-range tolerance is never    *)
(* clamped into the range, by validation or by the swap encoder: the       *)
(* validator returns nothing but its verdict, and the encoder's            *)
(* minAmountOut is the floor of expected * (10000 - 100 * t) / 10000 for   *)
(* the tolerance t as given.                                               *)
(***************************************************************************)
\* the number a little-endian field holds
FromLE(bytes) == MkBN(FALSE, Strip(bytes))

C13_OutOfRangeRejectedNotClamped ==
    /\ Done("validateSwapParams")
           => /\ result.ok
              /\ DOMAIN result.value = {"isValid", "errors"}
              /\ (\E i \in 1..Len(result.value.errors) :
                      result.value.errors[i]
                          = "Slippage tolerance must be between 0 and 50 percent")
                     <=> /\ args.slippageTolerance # <<>>
                         /\ \/ args.slippageTolerance[1] < 0
                            \/ args.slippageTolerance[1] > 50
    /\ (/\ Done("createSwapInstruction")
        /\ result.ok
        /\ args.slippageTolerance # <<>>
        /\ args.slippageTolerance[1] \notin 0..50
        /\ BNgte(args.expectedAmountOut, BN(0)))
           => IsFloorOf(FromLE(MinAmountOutField(result.value.data)),
                        BNmul(args.expectedAmountOut,
                              BN(10000 - 100 * args.slippageTolerance[1])),
                        BN(10000))

\* a swap encoded at a tolerance of 51%: 490 of 1000, where 50% gives 500
C13_FiftyOnePercentEncoded ==
    /\ Done("createSwapInstruction")
    /\ result.ok
    /\ args.slippageTolerance = <<51>>
    /\ args.expectedAmountOut = BN(1000)
    /\ FromLE(MinAmountOutField(result.value.data)) = BN(490)

(***************************************************************************)
(* C14.  estimateLPTokensFromDeposit(deposit, poolBalance, lpSupply)       *)
(* returns deposit when lpSupply = 0 or poolBalance = 0 (so (500, 0, 0)    *)
(* gives 500), and floor(deposit * lpSupply / poolBalance) in every other  *)
(* case, the amounts being unsigned.                                       *)
(***************************************************************************)
C14_SharesAreDepositOrFloor ==
    Done("estimateLPTokensFromDeposit") =>
        /\ (BNisZero(args.currentLpSupply) \/ BNisZero(args.currentPoolBalance))
               => result = Return(args.depositAmount)
        /\ args = [depositAmount |-> BN(500), currentPoolBalance |-> BN(0),
                   currentLpSupply |-> BN(0)]
               => result = Return(BN(500))
        /\ (/\ BNgt(args.currentLpSupply, BN(0))
            /\ BNgt(args.currentPoolBalance, BN(0))
            /\ BNgte(args.depositAmount, BN(0)))
               => /\ result.ok
                  /\ IsFloorOf(result.value,
                               BNmul(args.depositAmount, args.currentLpSupply),
                               args.currentPoolBalance)

\* a deposit of 1000 into a pool of 7 with 3 shares: 428 shares
C14_SharesRoundedDown ==
    /\ Done("estimateLPTokensFromDeposit")
    /\ args.depositAmount = BN(1000)
    /\ args.currentPoolBalance = BN(7)
    /\ args.currentLpSupply = BN(3)
    /\ result = Return(BN(428))

(***************************************************************************)
(* C15.  estimateTokensFromWithdraw(lpAmount, poolBalance, lpSupply)       *)
(* returns zero when lpSupply = 0 and floor(lpAmount * poolBalance /       *)
(* lpSupply) otherwise, for all non-negative inputs.                       *)
(***************************************************************************)
C15_TokensAreZeroOrFloor ==
    (/\ Done("estimateTokensFromWithdraw")
     /\ BNgte(args.lpAmount, BN(0))
     /\ BNgte(args.currentPoolBalance, BN(0))
     /\ BNgte(args.currentLpSupply, BN(0)))
        => /\ result.ok
           /\ BNisZero(args.currentLpSupply) => result.value = BN(0)
           /\ ~BNisZero(args.currentLpSupply)
                  => IsFloorOf(result.value,
                               BNmul(args.lpAmount, args.currentPoolBalance),
                               args.currentLpSupply)

\* 1000 shares of 7 on a pool of 3: 428 tokens
C15_TokensRoundedDown ==
    /\ Done("estimateTokensFromWithdraw")
    /\ args.lpAmount = BN(1000)
    /\ args.currentPoolBalance = BN(3)
    /\ args.currentLpSupply = BN(7)
    /\ result = Return(BN(428))

(***************************************************************************)
(* C16.  Each builder's payload is the 1-byte opcode followed by exactly   *)
(* the fixed-width little-endian fields of the layout table:               *)
(* InitializePool = 3, ratioA u64, ratioB u64 (17 bytes); Deposit = 7 and  *)
(* Withdraw = 8, mint, amount u64; Swap = 9, mint, amountIn u64,           *)
(* minAmountOut u64; DonateSol = 13, amount u64, msgLen u32, msgLen        *)
(* message bytes; ConsolidatePoolFees = 15, poolCount u32 (5 bytes);       *)
(* GetTreasuryInfo = 12 and GetVersion = 14 alone.  Decoding each integer  *)
(* field little-endian returns the unsigned value that was passed in.  A   *)
(* mint takes the KeyLen bytes of an address.                              *)
(***************************************************************************)
Field(data, first, length) == SubSeq(data, first, first + length - 1)

\* opcode, mint, amount
IsMintAmountPayload(data, opcode, mint, amount) ==
    /\ Len(data) = 1 + KeyLen + 8
    /\ data[1] = opcode
    /\ Field(data, 2, KeyLen) = mint
    /\ BNgte(amount, BN(0)) => FromLE(Field(data, 2 + KeyLen, 8)) = amount

C16_PayloadLayouts ==
    /\ (Done("createInitializePoolInstruction") /\ result.ok)
           => /\ Len(result.value.data) = 17
              /\ result.value.data[1] = 3
              /\ FromLE(Field(result.value.data, 2, 8)) = args.ratioA
              /\ FromLE(Field(result.value.data, 10, 8)) = args.ratioB
    /\ (Done("createDepositInstruction") /\ result.ok)
           => IsMintAmountPayload(result.value.data, 7, args.depositTokenMint,
                                  args.depositAmount)
    /\ (Done("createWithdrawInstruction") /\ result.ok)
           => IsMintAmountPayload(result.value.data, 8, args.withdrawTokenMint,
                                  args.withdrawAmount)
    /\ (Done("createSwapInstruction") /\ result.ok)
           => /\ Len(result.value.data) = 1 + KeyLen + 16
              /\ result.value.data[1] = 9
              /\ Field(result.value.data, 2, KeyLen) = args.inputTokenMint
              /\ BNgte(args.amountIn, BN(0))
                     => FromLE(Field(result.value.data, 2 + KeyLen, 8))
                            = args.amountIn
    /\ (Done("createDonateSolInstruction") /\ result.ok)
           => /\ Len(result.value.data) >= 13
              /\ result.value.data[1] = 13
              /\ BNgte(args.amount, BN(0))
                     => FromLE(Field(result.value.data, 2, 8)) = args.amount
              /\ FromLE(Field(result.value.data, 10, 4))
                     = BN(Len(result.value.data) - 13)
    /\ (Done("createConsolidatePoolFeesInstruction") /\ result.ok)
           => /\ Len(result.value.data) = 5
              /\ result.value.data[1] = 15
              /\ FromLE(Field(result.value.data, 2, 4))
                     = BN(Len(result.value.keys) - 3)
    /\ (Done("createGetTreasuryInfoInstruction") /\ result.ok)
           => result.value.data = <<12>>
    /\ (Done("createGetVersionInstruction") /\ result.ok)
           => result.value.data = <<14>>

\* a swap of 1000 = 0x03E8: the amount field begins with the bytes E8 03
C16_SwapOfThousandEncoded ==
    /\ Done("createSwapInstruction")
    /\ result.ok
    /\ args.amountIn = BN(1000)
    /\ Field(result.value.data, 2 + KeyLen, 8) = <<232, 3, 0, 0, 0, 0, 0, 0>>

(***************************************************************************)
(* C17.  The account-reference list of every builder has a fixed role at   *)
(* each position, independent of the argument values: initialize-pool has  *)
(* 13 entries with the two token mints at positions 8 and 9 in the order   *)
(* of normalizeTokenOrder, followed by vault A, vault B, LP mint A, LP     *)
(* mint B; deposit, withdraw and swap have 9; donate has 4; consolidate    *)
(* has 3 plus the pools; the treasury query has 2; the version query has   *)
(* 0.  The only signer entry in any list is the caller's authority (the    *)
(* donor) at the first position, and consolidate and the two query         *)
(* instructions contain no signer.                                         *)
(***************************************************************************)
PubKeys(keys) == [i \in 1..Len(keys) |-> keys[i].pubkey]

Signers(keys) == {i \in 1..Len(keys) : keys[i].isSigner}

SystemState == deriveSystemStatePDA.value[1]

MainTreasury == deriveMainTreasuryPDA.value[1]

\* the accounts of the pool of two mints, in normalized order, at a ratio
PoolAccounts(mintA, mintB, ratioA, ratioB) ==
    LET pool == derivePoolStatePDA(mintA, mintB, ratioA, ratioB).value[1]
    IN  <<pool,
          FindProgramAddressSync(<<SEED_TOKEN_A_VAULT, pool>>).value[1],
          FindProgramAddressSync(<<SEED_TOKEN_B_VAULT, pool>>).value[1],
          FindProgramAddressSync(<<SEED_LP_TOKEN_A_MINT, pool>>).value[1],
          FindProgramAddressSync(<<SEED_LP_TOKEN_B_MINT, pool>>).value[1]>>

InOpenRange(x, max) == BNgt(x, BN(0)) /\ BNlt(x, max)

Reports(errors, messages) ==
    \E i \in 1..Len(errors) : errors[i] \in messages

\* the verdict on an amount: rejected out of (0, 10^15), no error of
\* the given ones within
AmountJudged(amount, messages) ==
    /\ result.ok
    /\ ~InOpenRange(amount, Pow10(15)) => ~result.value.isValid
    /\ InOpenRange(amount, Pow10(15))
           => ~Reports(result.value.errors, messages)

C18_AmountsAndRatiosBounded ==
    /\ Done("validateDepositParams")
           => AmountJudged(args.depositAmount,
                           {"Deposit amount must be positive",
                            "Deposit amount too large"})
    /\ Done("validateWithdrawParams")
           => AmountJudged(args.withdrawAmount,
                           {"Withdraw amount must be positive"})
    /\ Done("validateSwapParams")
           => AmountJudged(args.amountIn,
                           {"Input amount must be positive",
                            "Swap amount too large"})
    /\ Done("validatePoolCreationParams")
           => /\ result.ok
              /\ (~InOpenRange(args.ratioA, Pow10(18))
                      \/ ~InOpenRange(args.ratioB, Pow10(18)))
                     => ~result.value.isValid
              /\ (InOpenRange(args.ratioA, Pow10(18))
                      /\ InOpenRange(args.ratioB, Pow10(18)))
                     => ~Reports(result.value.errors,
                                 {"Ratio A must be positive",
                                  "Ratio B must be positive",
                                  "Ratios too large (max 10^18)"})

\* a withdrawal of 10^15 that is found valid
C18_LargeWithdrawalAccepted ==
    /\ Done("validateWithdrawParams")
    /\ args.withdrawAmount = Pow10(15)
    /\ result.value.isValid

(***************************************************************************)
(* C19.  validateConsolidationParams returns isValid = true exactly when   *)
(* the list has between 1 and 20 pool addresses and no address occurs      *)
(* twice; an empty list, a list of more than 20, and a list with a         *)
(* duplicate each add their own error.                                     *)
(***************************************************************************)
HasDuplicate(list) == \E i, j \in 1..Len(list) : i # j /\ list[i] = list[j]

C19_ValidConsolidationList ==
    Done("validateConsolidationParams") =>
        LET pools == args.poolStatePDAs
            errors == result.value.errors
        IN  /\ result.ok
            /\ result.value.isValid
                   <=> (Len(pools) \in 1..20 /\ ~HasDuplicate(pools))
            /\ Reports(errors, {"At least one pool must be specified"})
                   <=> Len(pools) = 0
            /\ Reports(errors,
                       {"Maximum 20 pools per consolidation transaction"})
                   <=> Len(pools) > 20
            /\ Reports(errors, {"Duplicate pools found in consolidation list"})
                   <=> HasDuplicate(pools)

\* twenty different pools, found valid
C19_TwentyPoolsValid ==
    /\ Done("validateConsolidationParams")
    /\ Len(args.poolStatePDAs) = 20
    /\ ~HasDuplicate(args.poolStatePDAs)
    /\ result.value = [isValid |-> TRUE, errors |-> <<>>]

(***************************************************************************)
(* C20.  validateDonationParams returns isValid = true exactly when the    *)
(* amount lies in [100,000,000, 1000 * 10^9] (both bounds accepted) and    *)
(* the message, if present, has at most 200 characters, a character being  *)
(* a code unit of the string.                                              *)
(***************************************************************************)
C20_ValidDonation ==
    Done("validateDonationParams") =>
        /\ result.ok
        /\ result.value.isValid
               <=> /\ BNgte(args.amount, BN(100000000))
                   /\ BNlte(args.amount, Pow10(12))
                   /\ args.message # <<>> => Len(args.message[1]) <= 200

\* the largest donation with the longest message, found valid
C20_BoundsAccepted ==
    /\ Done("validateDonationParams")
    /\ args.amount = Pow10(12)
    /\ args.message # <<>>
    /\ Len(args.message[1]) = 200
    /\ result.value.isValid

(***************************************************************************)
(* Concurrent invocations of the three queries                             *)
(***************************************************************************)
Queries == {"getContractVersion", "getTreasuryInfo", "doesPoolExist"}

\* the instruction a query has simulated
QueryInstruction(name) ==
    IF name = "getContractVersion" THEN createGetVersionInstruction.value
    ELSE createGetTreasuryInfoInstruction.value

\* the requests an invocation has issued, from its own arguments and the
\* answers given to it
RequestsOf(f) ==
    IF f.op = "doesPoolExist"
    THEN <<Request("getAccountInfo", f.args.poolStatePDA)>>
    ELSE IF Len(f.responses) >= 1 /\ f.responses[1].ok
    THEN <<Request("getLatestBlockhash", <<>>),
           Request("simulateTransaction", QueryInstruction(f.op))>>
    ELSE <<Request("getLatestBlockhash", <<>>)>>

\* the outcome of a finished invocation, from the answers given to it
OutcomeOf(f) ==
    IF f.op = "doesPoolExist" THEN doesPoolExist_Fetched(f.responses[1])
    ELSE IF f.op = "getContractVersion"
    THEN IF f.responses[1].ok
         THEN getContractVersion_Simulated(f.responses[2])
         ELSE getContractVersion_Fail(f.responses[1].error)
    ELSE IF f.responses[1].ok
         THEN getTreasuryInfo_Simulated(f.responses[2])
         ELSE getTreasuryInfo_Fail(f.responses[1].error)

\* an invocation holds its own requests and the answers to them only, and
\* once finished the outcome those answers determine
OwnOnly(f) ==
    /\ f.requests = RequestsOf(f)
    /\ f.pc \in AwaitPoints =>
           /\ Len(f.responses) = Len(f.requests) - 1
           /\ f.result = Return(<<>>)
    /\ f.pc = "done" =>
           /\ Len(f.responses) = Len(f.requests)
           /\ f.result = OutcomeOf(f)

\* C21: under any interleaving of concurrent getContractVersion,
\* getTreasuryInfo and doesPoolExist invocations, every invocation, running
\* or waiting, holds the requests its own arguments and answers lead to and
\* the answers to those requests only, and its result is the outcome those
\* answers determine: nothing of another invocation enters it.
C21_OwnArgumentsAndAnswersOnly ==
    /\ op \in Queries => OwnOnly(Frame)
    /\ \A i \in 1..Len(waiting) :
           waiting[i].op \in Queries /\ OwnOnly(waiting[i])

\* a version query is answered while a treasury query, started before it
\* and already past its blockhash, waits for its simulation
C21_AnsweredWhileAnotherWaits ==
    /\ Done("getContractVersion")
    /\ result.ok
    /\ result.value # VersionNotAvailable
    /\ Len(waiting) = 1
    /\ waiting[1].op = "getTreasuryInfo"
    /\ waiting[1].pc = "simulateTransaction"

\* C22: converting an amount in the smallest unit to a display amount and
\* back gives the amount again, for every non-negative amount toNumber
\* accepts and every number of decimals.
C22_RoundTrip ==
    Done("fromBasisPoints") /\ result.ok =>
        toBasisPoints(result.value, args.decimals) = Return(args.basisPoints)

\* 0.29 at two decimals comes back as 28
C22_TwentyNineComesBackLess ==
    /\ Done("fromBasisPoints")
    /\ args.basisPoints = BN(29)
    /\ args.decimals = 2
    /\ toBasisPoints(result.value, 2) = Return(BN(28))

\* the first line of logs that carries label with a number, 0 when none does
FirstCarrying(logs, label) ==
    LET at == {i \in 1..Len(logs) : Carries(logs[i], label)}
    IN  IF at = {} THEN 0 ELSE CHOOSE i \in at : \A k \in at : i <= k

\* the number after label on the first line that carries it
FirstNumber(logs, label) ==
    LET first == FirstCarrying(logs, label)
    IN  IF first = 0 THEN <<48>>
        ELSE MatchDigitsAfter(logs[first], label)[1]

VersionLabels ==
    {LabelContractName, LabelContractVersion, LabelBuildDate, LabelRustVersion}

\* the lines that do not repeat a label of an earlier line
FirstOfLabel(logs) ==
    {i \in 1..Len(logs) :
        \A label \in VersionLabels :
            Includes(logs[i], label) =>
                \A j \in 1..(i - 1) : ~Includes(logs[j], label)}

RECURSIVE Pick(_, _, _)
Pick(logs, keep, i) ==
    IF i > Len(logs) THEN <<>>
    ELSE (IF i \in keep THEN <<logs[i]>> ELSE <<>>) \o Pick(logs, keep, i + 1)

\* C23: when a label occurs on more than one line of the logs, the parsers
\* take the value of the first line that carries it: every field of the
\* treasury information is the number on the first line carrying its label,
\* and the version text is what the logs give without the lines that repeat
\* a label.
C23_FirstMatchWins ==
    /\ (Done("getTreasuryInfo") /\ result.ok) =>
           /\ result.value.totalBalance
                  = BNfromString(FirstNumber(ParsedLogs, LabelTotalBalance))
           /\ result.value.totalFeesCollected
                  = BNfromString(FirstNumber(ParsedLogs, LabelTotalFeesCollected))
           /\ result.value.lastWithdrawalTime
                  = BNfromString(FirstNumber(ParsedLogs, LabelLastWithdrawal))
           /\ result.value.withdrawalCount
                  = parseInt(FirstNumber(ParsedLogs, LabelWithdrawalCount))
           /\ result.value.donationCount
                  = parseInt(FirstNumber(ParsedLogs, LabelDonationCount))
           /\ result.value.totalDonations
                  = BNfromString(FirstNumber(ParsedLogs, LabelTotalDonations))
    /\ (Done("getContractVersion") /\ Len(responses) = 2 /\ responses[2].ok) =>
           result.value
               = extractVersionFromLogs(
                     Pick(ParsedLogs, FirstOfLabel(ParsedLogs), 1))

\* the balance of the later of two lines is the one reported
C23_LastBalanceReported ==
    /\ Done("getTreasuryInfo")
    /\ result.ok
    /\ ParsedLogs = <<LabelTotalBalance \o <<32, 52, 50>>,
                      LabelTotalBalance \o <<55>>>>
    /\ result.value.totalBalance = BN(7)

\* the last line of logs that carries label with a number, 0 when none does
LastCarrying(logs, label) ==
    LET at == {i \in 1..Len(logs) : Carries(logs[i], label)}
    IN  IF at = {} THEN 0 ELSE SetMax(at)

\* the number after label on the last line that carries it
LastNumber(logs, label) ==
    LET last == LastCarrying(logs, label)
    IN  IF last = 0 THEN <<48>>
        ELSE MatchDigitsAfter(logs[last], label)[1]

\* the lines whose labels no later line repeats
LastOfLabel(logs) ==
    {i \in 1..Len(logs) :
        \A label \in VersionLabels :
            Includes(logs[i], label) =>
                \A j \in (i + 1)..Len(logs) : ~Includes(logs[j], label)}

\* C23, as the parsers are: when a label occurs on more than one line of
\* the logs, the value of the last line that carries it is the one taken;
\* earlier lines with the same label leave no trace.
C23_LastMatchWins ==
    /\ (Done("getTreasuryInfo") /\ result.ok) =>
           /\ result.value.totalBalance
                  = BNfromString(LastNumber(ParsedLogs, LabelTotalBalance))
           /\ result.value.totalFeesCollected
                  = BNfromString(LastNumber(ParsedLogs, LabelTotalFeesCollected))
           /\ result.value.lastWithdrawalTime
                  = BNfromString(LastNumber(ParsedLogs, LabelLastWithdrawal))
           /\ result.value.withdrawalCount
                  = parseInt(LastNumber(ParsedLogs, LabelWithdrawalCount))
           /\ result.value.donationCount
                  = parseInt(LastNumber(ParsedLogs, LabelDonationCount))
           /\ result.value.totalDonations
                  = BNfromString(LastNumber(ParsedLogs, LabelTotalDonations))
    /\ (Done("getContractVersion") /\ Len(responses) = 2 /\ responses[2].ok) =>
           result.value
               = extractVersionFromLogs(
                     Pick(ParsedLogs, LastOfLabel(ParsedLogs), 1))

\* C25: every swap request that validateSwapParams finds valid can be
\* encoded: createSwapInstruction completes for it, amountIn and the
\* minAmountOut computed for it are non-negative and below 2^64, and the
\* two u64 fields written hold exactly these values.
C25_ValidSwapEncodable ==
    (Done("validateSwapParams") /\ result.value.isValid) =>
        LET instruction == createSwapInstruction(args)
            minAmountOut ==
                getMinAmountOut(args.expectedAmountOut,
                                SlippageOrDefault(args.slippageTolerance))
        IN  /\ instruction.ok
            /\ BNgte(args.amountIn, BN(0))
            /\ BNlt(args.amountIn, TwoTo64)
            /\ minAmountOut.ok
            /\ BNgte(minAmountOut.value, BN(0))
            /\ BNlt(minAmountOut.value, TwoTo64)
            /\ FromLE(Field(instruction.value.data, 2 + KeyLen, 8))
                   = args.amountIn
            /\ FromLE(MinAmountOutField(instruction.value.data))
                   = minAmountOut.value

\* a swap of 1 for an expected 10^20 is valid and cannot be encoded
C25_HugeExpectedOutputAccepted ==
    /\ Done("validateSwapParams")
    /\ result.value.isValid
    /\ args.amountIn = BN(1)
    /\ args.expectedAmountOut = Pow10(20)
    /\ ~createSwapInstruction(args).ok

\* no bump in 0..255 gives seeds a candidate address off the curve
NoBumpOffCurve(seeds) ==
    \A bump \in 0..255 : IsOnCurve(Digest(seeds, bump))

DerivationFailure == Throw("Unable to find a viable program address nonce")

\* pair is the candidate address of seeds and its bump, for the highest
\* bump in 0..255 whose candidate is off the curve
IsHighestOffCurve(pair, seeds) ==
    /\ pair[2] \in 0..255
    /\ pair[1] = Digest(seeds, pair[2])
    /\ ~IsOnCurve(pair[1])
    /\ \A bump \in (pair[2] + 1)..255 : IsOnCurve(Digest(seeds, bump))

\* r is the outcome of deriving from seeds: the address and bump of the
\* highest off-curve bump, or the derivation failure when there is none
HighestOffCurve(r, seeds) ==
    IF r.ok THEN IsHighestOffCurve(r.value, seeds)
    ELSE r = DerivationFailure /\ NoBumpOffCurve(seeds)

\* the same for the two derivations of a pair
HighestOffCurvePair(r, first, second, seedsA, seedsB) ==
    IF r.ok
    THEN /\ IsHighestOffCurve(r.value[first], seedsA)
         /\ IsHighestOffCurve(r.value[second], seedsB)
    ELSE /\ r = DerivationFailure
         /\ NoBumpOffCurve(seedsA) \/ NoBumpOffCurve(seedsB)

\* the seeds of a pool: the prefix, the mints in the order of
\* normalizeTokenOrder and the ratios as u64
PoolSeeds(a, b, ratioA, ratioB) ==
    <<SEED_POOL_STATE_V2, normalizeTokenOrder(a, b)[1],
      normalizeTokenOrder(a, b)[2], ToArrayLikeLE(ratioA, 8).value,
      ToArrayLikeLE(ratioB, 8).value>>

C26_NoBumpOffCurve ==
    /\ Done("derivePoolStatePDA")
    /\ result = DerivationFailure
    /\ ToArrayLikeLE(args.ratioA, 8).ok
    /\ ToArrayLikeLE(args.ratioB, 8).ok

\* C27: the normalizedTokenA and normalizedTokenB that getPoolPDAs reports
\* are the first and the second token seed of the pool address it returns,
\* and they are the same two, in the same places, when the caller passes the
\* two tokens the other way round.
C27_ReportedOrderIsSeedOrder ==
    (Done("getPoolPDAs") /\ result.ok) =>
        LET other == getPoolPDAs(args.tokenBMint, args.tokenAMint,
                                 args.ratioA, args.ratioB)
        IN  /\ result.value.poolStatePDA
                   = Digest(<<SEED_POOL_STATE_V2,
                              result.value.normalizedTokenA,
                              result.value.normalizedTokenB,
                              ToArrayLikeLE(args.ratioA, 8).value,
                              ToArrayLikeLE(args.ratioB, 8).value>>,
                            result.value.poolBump)
            /\ other.ok
            /\ other.value.normalizedTokenA = result.value.normalizedTokenA
            /\ other.value.normalizedTokenB = result.value.normalizedTokenB

\* two tokens that are reported in one order while the pool address is
\* derived from them in the other
C27_ReportedOrderReversed ==
    /\ Done("getPoolPDAs")
    /\ result.ok
    /\ result.value.normalizedTokenA # result.value.normalizedTokenB
    /\ result.value.poolStatePDA
           = Digest(<<SEED_POOL_STATE_V2,
                      result.value.normalizedTokenB,
                      result.value.normalizedTokenA,
                      ToArrayLikeLE(args.ratioA, 8).value,
                      ToArrayLikeLE(args.ratioB, 8).value>>,
                    result.value.poolBump)

\* C28: a ratio stays with the token the caller gave it for.  A pool named
\* from its other side, tokens and ratios both exchanged, has the same
\* address; and when createInitializePoolInstruction puts the caller's
\* second token first, the payload carries the caller's second ratio first.
C28_RatiosFollowTokens ==
    /\ (Done("derivePoolStatePDA") /\ result.ok) =>
           derivePoolStatePDA(args.tokenBMint, args.tokenAMint,
                              args.ratioB, args.ratioA) = result
    /\ (/\ Done("createInitializePoolInstruction")
        /\ result.ok
        /\ args.tokenAMint # args.tokenBMint
        /\ normalizeTokenOrder(args.tokenAMint, args.tokenBMint)
               = <<args.tokenBMint, args.tokenAMint>>) =>
           /\ FromLE(Field(result.value.data, 2, 8)) = args.ratioB
           /\ FromLE(Field(result.value.data, 10, 8)) = args.ratioA

\* the pool of 1 of the lower token for 3 of the higher one has another
\* address when it is named from the higher token's side
C28_OtherSideOtherAddress ==
    /\ Done("derivePoolStatePDA")
    /\ result.ok
    /\ args.tokenAMint = KeyOf(65)
    /\ args.tokenBMint = [KeyOf(65) EXCEPT ![KeyLen] = 128]
    /\ args.ratioA = BN(1)
    /\ args.ratioB = BN(3)
    /\ derivePoolStatePDA(args.tokenBMint, args.tokenAMint, BN(3), BN(1)).ok
    /\ derivePoolStatePDA(args.tokenBMint, args.tokenAMint, BN(3), BN(1))
           # result

\* C29: rounding never creates value.  The output of a swap, swapped back
\* at the same ratios, is at most the amount put in, for every amount >= 0
\* and positive ratios; and the LP tokens estimated for a deposit redeem, at
\* the same pool balance and LP supply, for at most the deposit, for every
\* deposit >= 0 and positive balance and supply.
C29_RoundTripNeverGains ==
    /\ (/\ Done("calculateSwapOutput")
        /\ BNgte(args.inputAmount, BN(0))
        /\ BNgt(args.inputRatio, BN(0))
        /\ BNgt(args.outputRatio, BN(0))) =>
           /\ result.ok
           /\ LET back == calculateSwapOutput(result.value, args.outputRatio,
                                              args.inputRatio)
              IN  back.ok /\ BNlte(back.value, args.inputAmount)
    /\ (/\ Done("estimateLPTokensFromDeposit")
        /\ BNgte(args.depositAmount, BN(0))
        /\ BNgt(args.currentPoolBalance, BN(0))
        /\ BNgt(args.currentLpSupply, BN(0))) =>
           /\ result.ok
           /\ LET back == estimateTokensFromWithdraw(result.value,
                              args.currentPoolBalance, args.currentLpSupply)
              IN  back.ok /\ BNlte(back.value, args.depositAmount)

\* 1000 swapped at 3 to 1 gives 333, which swapped back gives 999
C29_OneLostInRounding ==
    /\ Done("calculateSwapOutput")
    /\ args.inputAmount = BN(1000)
    /\ args.inputRatio = BN(3)
    /\ args.outputRatio = BN(1)
    /\ result = Return(BN(333))
    /\ calculateSwapOutput(result.value, BN(1), BN(3)) = Return(BN(999))

\* a deposit of 500 at balance 3 and supply 7 gives 1166 LP tokens, which
\* redeem for 499
C29_DepositRedeemsForLess ==
    /\ Done("estimateLPTokensFromDeposit")
    /\ args.depositAmount = BN(500)
    /\ result = Return(BN(1166))
    /\ estimateTokensFromWithdraw(result.value, args.currentPoolBalance,
                                  args.currentLpSupply) = Return(BN(499))

\* C30: what the validators accept, the builders encode in full.  For a
\* donation that validateDonationParams accepts, createDonateSolInstruction
\* writes the encoding of the whole message, preceded by its length in
\* bytes; for a list that validateConsolidationParams accepts,
\* createConsolidatePoolFeesInstruction writes every pool of the list, in
\* order, and the length of the list as the pool count.
C30_AcceptedIsEncodedWhole ==
    /\ (Done("validateDonationParams") /\ result.value.isValid) =>
           LET instruction == createDonateSolInstruction(args)
               whole == BufferFromString(OrEmpty(args.message))
           IN  /\ instruction.ok
               /\ instruction.value.data
                      = <<PoolInstruction.DonateSol>>
                            \o ToArrayLikeLE(args.amount, 8).value
                            \o UInt32LE(Len(whole)) \o whole
    /\ (Done("validateConsolidationParams") /\ result.value.isValid) =>
           LET instruction ==
                   createConsolidatePoolFeesInstruction(args.poolStatePDAs)
               count == Len(args.poolStatePDAs)
           IN  /\ instruction.ok
               /\ Len(instruction.value.keys) = 3 + count
               /\ \A i \in 1..count :
                      instruction.value.keys[3 + i]
                          = Account(args.poolStatePDAs[i], FALSE, TRUE)
               /\ instruction.value.data
                      = <<PoolInstruction.ConsolidatePoolFees>>
                            \o UInt32LE(count)

\* an accepted donation whose message of 200 characters takes more than
\* 200 bytes, all of them written
C30_LongestMessageWhole ==
    /\ Done("validateDonationParams")
    /\ result.value.isValid
    /\ args.message # <<>>
    /\ Len(args.message[1]) = MaxMessageLength
    /\ Len(BufferFromString(args.message[1])) > MaxMessageLength
    /\ Len(createDonateSolInstruction(args).value.data)
           = 13 + Len(BufferFromString(args.message[1]))

\* how many of the requests are for method
Requested(method) ==
    Cardinality({i \in 1..Len(requests) : requests[i].method = method})

\* C24: no retries.  An invocation of getContractVersion or getTreasuryInfo
\* requests the blockhash at most once and the simulation at most once, the
\* simulation only after the blockhash was answered with success; an
\* invocation of doesPoolExist requests the account once and nothing else;
\* and after a request that failed the invocation is finished without any
\* further request.
C24_NoRetries ==
    /\ op \in {"getContractVersion", "getTreasuryInfo"} =>
           /\ Requested("getLatestBlockhash") <= 1
           /\ Requested("simulateTransaction") <= 1
           /\ Requested("getAccountInfo") = 0
           /\ \A i \in 1..Len(requests) :
                  requests[i].method = "simulateTransaction" =>
                      /\ i = 2
                      /\ requests[1].method = "getLatestBlockhash"
                      /\ Len(responses) >= 1
                      /\ responses[1].ok
    /\ op = "doesPoolExist" =>
           /\ Len(requests) = 1
           /\ requests[1] = Request("getAccountInfo", args.poolStatePDA)
    /\ op \in Queries =>
           /\ Len(responses) <= Len(requests)
           /\ \A i \in 1..Len(responses) :
                  ~responses[i].ok => pc = "done" /\ Len(requests) = i
           /\ (Len(responses) = 2 /\ responses[2].ok
                   /\ responses[2].value.err # Unset)
                  => pc = "done" /\ Len(requests) = 2

\* a version query whose blockhash request failed: finished with the
\* error, one request made
C24_FailedBlockhashNotRetried ==
    /\ Done("getContractVersion")
    /\ ~result.ok
    /\ Len(responses) = 1
    /\ ~responses[1].ok
    /\ requests = <<Request("getLatestBlockhash", <<>>)>>
========================================================================
